---- MODULE Spec2Model ----
(***************************************************************************)
(* FitFive backend: inventory stock and the order-like documents that      *)
(* move it (orders, sales orders, purchase orders), the cart, the tokens   *)
(* and the account status they depend on, the list endpoints and the error *)
(* handler.  Every request handler is one action; the handlers whose       *)
(* interleaving matters are also given step by step, one database call per *)
(* step.                                                                   *)
(***************************************************************************)
EXTENDS Integers, Sequences, FiniteSets, TLC

VARIABLES
    inventory,       \* Inventory collection: id -> document
    orders,          \* Order collection: sequence, index = _id
    salesOrders,     \* SalesOrder collection: sequence, index = _id
    purchaseOrders,  \* PurchaseOrder collection: sequence, index = _id
    catalog,         \* Item, Size and Color collections: the ids stored
    carts,           \* Cart collection: sequence of documents
    users,           \* User collection: email -> document
    now,             \* the clock, in seconds
    reqs,            \* requests in flight (step-by-step handlers)
    last,            \* the last request answered: [op, status, id, qty], qty
                     \* being the quantity or, on createInventory and
                     \* updateInventory, the body of the request
    snap             \* what a property compares the answer with: the stock
                     \* before the last create, the line a create was
                     \* rejected at, the tokens handed out and the
                     \* deactivations asked for, the error thrown

vars == <<inventory, orders, salesOrders, purchaseOrders, catalog, carts, users, now,
          reqs, last, snap>>

----------------------------------------------------------------------------
(* Bounds of the model *)

MaxStock == 2        \* largest stock a request sets, and the initial stock
MaxQty == 2          \* largest quantity on a line or in a stock request
MaxLines == 2        \* lines of an order
StockCap == 4        \* stock is not raised above this in a run

InvIds == {1, 2}     \* the inventory documents of a run
OrderIds == {1}            \* the _id values a run gives to orders,
SalesOrderIds == {1}       \* to sales orders
PurchaseOrderIds == {1}    \* and to purchase orders
Customers == {"c1"}
Suppliers == {"s1"}
InvalidId == 0       \* a string that is no ObjectId
ItemIds == {1}
SizeIds == {1, 2}
ColorIds == {1, 2}
Users == {"u1", "u2", "admin"}
NoUser == "none"
Role(u) == IF u = "admin" THEN "admin" ELSE "user"

----------------------------------------------------------------------------
(* Inventory documents *)

NoDoc == [doc |-> "none", item |-> 0, size |-> 0, color |-> 0,
          price |-> 0, stock |-> 0, isActive |-> FALSE]

Exists(inv, id) == id \in DOMAIN inv /\ inv[id].doc = "live"

Stock(inv) == [i \in DOMAIN inv |-> inv[i].stock]

Resp(op, status, id, qty) == [op |-> op, status |-> status, id |-> id, qty |-> qty]

NoSnap == [kind |-> "none", id |-> 0, stock |-> <<>>]

LiveDoc(size, color, stock) ==
    [doc |-> "live", item |-> 1, size |-> size, color |-> color,
     price |-> 5, stock |-> stock, isActive |-> TRUE]

FullCatalog == [item |-> ItemIds, size |-> SizeIds, color |-> ColorIds]

\* a refresh token is the signed payload { id, type: 'refresh', iat, exp };
\* null is NoToken
NoToken == [id |-> NoUser, iat |-> 0, exp |-> 0]

\* User documents: none stored, and stored with the refresh token cleared
NoAccount == [doc |-> "none", isActive |-> FALSE, refreshToken |-> NoToken,
              refreshTokenExpiry |-> 0]
LoggedOut == [doc |-> "live", isActive |-> TRUE, refreshToken |-> NoToken,
              refreshTokenExpiry |-> 0]

InitRest ==
    /\ catalog = FullCatalog
    /\ carts = <<>>
    /\ users = [u \in Users |-> LoggedOut]
    /\ now = 0
    /\ orders = <<>>
    /\ salesOrders = <<>>
    /\ purchaseOrders = <<>>
    /\ reqs = <<>>
    /\ last = Resp("none", 0, 0, 0)
    /\ snap = NoSnap

\* InventoryModel.findByIdAndUpdate(id, { $inc: { stock: d } }): one atomic
\* write, no validators run, nothing happens when the document is gone.
IncStockOff(inv, id, d) == inv

IncStockClamped(inv, id, d) ==
    IF Exists(inv, id)
    THEN [inv EXCEPT ![id].stock = IF @ + d < 0 THEN 0 ELSE @ + d]
    ELSE inv

IncStock(inv, id, d) ==
    IF Exists(inv, id) THEN [inv EXCEPT ![id].stock = @ + d] ELSE inv

ComboTakenNever(inv, item, size, color, except) == FALSE

\* InventoryModel.findOne({ item, size, color, _id: { $ne: except } })
ComboTaken(inv, item, size, color, except) ==
    \E i \in DOMAIN inv :
        /\ i # except
        /\ inv[i].doc = "live"
        /\ inv[i].item = item /\ inv[i].size = size /\ inv[i].color = color

FreeIds(inv) == {i \in DOMAIN inv : inv[i].doc = "none"}

MinOf(S) == CHOOSE x \in S : \A y \in S : x <= y

\* status of createInventory; 0 means the document is created
CreateInventoryStatus(inv, cat, d) ==
    IF d.item = 0 THEN 400
    ELSE IF d.price = 0 THEN 400
    ELSE IF d.size = 0 THEN 400
    ELSE IF d.color = 0 THEN 400
    ELSE IF d.stock < 0 THEN 400
    ELSE IF d.item \notin cat.item THEN 404
    ELSE IF d.size \notin cat.size THEN 404
    ELSE IF d.color \notin cat.color THEN 404
    ELSE IF ComboTaken(inv, d.item, d.size, d.color, 0) THEN 400
    ELSE 0

CreateInventory(d) ==
    LET st == CreateInventoryStatus(inventory, catalog, d) IN
    /\ FreeIds(inventory) # {}
    /\ LET id == MinOf(FreeIds(inventory)) IN
       IF st # 0
       THEN /\ inventory' = inventory
            /\ last' = Resp("createInventory", st, 0, d)
       ELSE /\ inventory' = [inventory EXCEPT ![id] =
                   [doc |-> "live", item |-> d.item, size |-> d.size,
                    color |-> d.color, price |-> d.price, stock |-> d.stock,
                    isActive |-> TRUE]]
            /\ last' = Resp("createInventory", 201, id, d)
    /\ snap' = NoSnap
    /\ UNCHANGED <<orders, salesOrders, purchaseOrders, reqs, catalog, carts, users, now>>

\* updateData: item, size, color are 0 when absent; stock is absent when
\* hasStock is FALSE; price is a field of the record only when present
UpdateInventoryStatus(inv, cat, id, u) ==
    IF u.hasStock /\ u.stock < 0 THEN 400
    ELSE IF ~Exists(inv, id) THEN 404
    ELSE IF u.item # 0 /\ u.item \notin cat.item THEN 404
    ELSE IF u.size # 0 /\ u.size \notin cat.size THEN 404
    ELSE IF u.color # 0 /\ u.color \notin cat.color THEN 404
    ELSE IF /\ (u.item # 0 \/ u.size # 0 \/ u.color # 0)
            /\ ComboTaken(inv,
                   IF u.item # 0 THEN u.item ELSE inv[id].item,
                   IF u.size # 0 THEN u.size ELSE inv[id].size,
                   IF u.color # 0 THEN u.color ELSE inv[id].color, id)
         THEN 400
    ELSE 0

UpdateInventory(id, u) ==
    LET st == UpdateInventoryStatus(inventory, catalog, id, u) IN
    /\ IF st # 0
       THEN /\ inventory' = inventory
            /\ last' = Resp("updateInventory", st, id, u)
       ELSE /\ inventory' = [inventory EXCEPT ![id] =
                   [@ EXCEPT !.item = IF u.item # 0 THEN u.item ELSE @,
                             !.size = IF u.size # 0 THEN u.size ELSE @,
                             !.color = IF u.color # 0 THEN u.color ELSE @,
                             !.price = IF "price" \in DOMAIN u THEN u.price ELSE @,
                             !.stock = IF u.hasStock THEN u.stock ELSE @]]
            /\ last' = Resp("updateInventory", 200, id, u)
    /\ snap' = NoSnap
    /\ UNCHANGED <<orders, salesOrders, purchaseOrders, reqs, catalog, carts, users, now>>

UpdateStockStatus(inv, id, stock) ==
    IF stock < 0 THEN 400
    ELSE IF ~Exists(inv, id) THEN 404
    ELSE 0

UpdateStock(id, stock) ==
    LET st == UpdateStockStatus(inventory, id, stock) IN
    /\ IF st # 0
       THEN /\ inventory' = inventory
            /\ last' = Resp("updateStock", st, id, stock)
       ELSE /\ inventory' = [inventory EXCEPT ![id].stock = stock]
            /\ last' = Resp("updateStock", 200, id, stock)
    /\ snap' = NoSnap
    /\ UNCHANGED <<orders, salesOrders, purchaseOrders, reqs, catalog, carts, users, now>>

IncrementStockStatus(inv, id, quantity) ==
    IF quantity <= 0 THEN 400
    ELSE IF ~Exists(inv, id) THEN 404
    ELSE 0

IncrementStock(id, quantity) ==
    LET st == IncrementStockStatus(inventory, id, quantity) IN
    /\ st = 0 => inventory[id].stock + quantity <= StockCap
    /\ IF st # 0
       THEN /\ inventory' = inventory
            /\ last' = Resp("incrementStock", st, id, quantity)
       ELSE /\ inventory' = [inventory EXCEPT ![id].stock = @ + quantity]
            /\ last' = Resp("incrementStock", 200, id, quantity)
    /\ snap' = NoSnap
    /\ UNCHANGED <<orders, salesOrders, purchaseOrders, reqs, catalog, carts, users, now>>

DecrementStockStatusNoCheck(inv, id, quantity) ==
    IF quantity <= 0 THEN 400
    ELSE IF ~Exists(inv, id) THEN 404
    ELSE 0

DecrementStockStatus(inv, id, quantity) ==
    IF quantity <= 0 THEN 400
    ELSE IF ~Exists(inv, id) THEN 404
    ELSE IF inv[id].stock - quantity < 0 THEN 400
    ELSE 0

DecrementStock(id, quantity) ==
    LET st == DecrementStockStatus(inventory, id, quantity) IN
    /\ IF st # 0
       THEN /\ inventory' = inventory
            /\ last' = Resp("decrementStock", st, id, quantity)
       ELSE /\ inventory' = [inventory EXCEPT ![id].stock = @ - quantity]
            /\ last' = Resp("decrementStock", 200, id, quantity)
    /\ snap' = NoSnap
    /\ UNCHANGED <<orders, salesOrders, purchaseOrders, reqs, catalog, carts, users, now>>

DeleteInventory(id) ==
    /\ IF ~Exists(inventory, id)
       THEN /\ inventory' = inventory
            /\ last' = Resp("deleteInventory", 404, id, 0)
       ELSE /\ inventory' = [inventory EXCEPT ![id] = [NoDoc EXCEPT !.doc = "gone"]]
            /\ last' = Resp("deleteInventory", 200, id, 0)
    /\ snap' = NoSnap
    /\ UNCHANGED <<orders, salesOrders, purchaseOrders, reqs, catalog, carts, users, now>>

----------------------------------------------------------------------------
(* Orders *)

Line(i, q) == [inventoryId |-> i, qty |-> q]

\* all item lists of 1 .. n lines over the inventories I and quantities Q
ItemLists(I, Q, n) ==
    UNION {[1 .. k -> {Line(i, q) : i \in I, q \in Q}] : k \in 1 .. n}

\* the checks createOrder makes on one line, against the inventory it reads
OrderLineStatus(inv, line) ==
    IF line.inventoryId = InvalidId THEN 400
    ELSE IF line.qty < 1 THEN 400
    ELSE IF ~Exists(inv, line.inventoryId) THEN 404
    ELSE IF ~inv[line.inventoryId].isActive THEN 400
    ELSE IF inv[line.inventoryId].stock < line.qty THEN 400
    ELSE 0

\* the validation loop from line k on: the first error, or 0
RECURSIVE OrderItemsStatus(_, _, _)
OrderItemsStatus(inv, items, k) ==
    IF k > Len(items) THEN 0
    ELSE LET e == OrderLineStatus(inv, items[k]) IN
         IF e # 0 THEN e ELSE OrderItemsStatus(inv, items, k + 1)

RECURSIVE OrderTotal(_, _, _)
OrderTotal(inv, items, k) ==
    IF k > Len(items) THEN 0
    ELSE inv[items[k].inventoryId].price * items[k].qty
         + OrderTotal(inv, items, k + 1)

IncAllFirstOnly(inv, items, k, sign) ==
    IF k > Len(items) THEN inv
    ELSE IncStock(inv, items[k].inventoryId, sign * items[k].qty)

\* for (const item of items) $inc stock by sign * qty, from line k on
RECURSIVE IncAll(_, _, _, _)
IncAll(inv, items, k, sign) ==
    IF k > Len(items) THEN inv
    ELSE IncAll(IncStock(inv, items[k].inventoryId, sign * items[k].qty),
                items, k + 1, sign)

\* total quantity the lines of items ask of inventory i
RECURSIVE LineSumFrom(_, _, _)
LineSumFrom(items, i, k) ==
    IF k > Len(items) THEN 0
    ELSE (IF items[k].inventoryId = i THEN items[k].qty ELSE 0)
         + LineSumFrom(items, i, k + 1)

LineSum(items, i) == LineSumFrom(items, i, 1)

CreateOrderStatus(inv, u, items, discount) ==
    IF u = NoUser THEN 401
    ELSE IF u \notin Users THEN 404
    ELSE IF Len(items) = 0 THEN 400
    ELSE LET e == OrderItemsStatus(inv, items, 1) IN
         IF e # 0 THEN e
         ELSE IF discount < 0 \/ discount > OrderTotal(inv, items, 1) THEN 400
         ELSE 0

\* the line at which createOrder stops: 0 before the loop, Len(items) + 1
\* at the discount check after it
RECURSIVE FailedLine(_, _, _)
FailedLine(inv, items, k) ==
    IF k > Len(items) \/ OrderLineStatus(inv, items[k]) # 0 THEN k
    ELSE FailedLine(inv, items, k + 1)

Rejected(inv, u, items) ==
    [kind |-> "rejected",
     line |-> IF u = NoUser \/ u \notin Users THEN 0 ELSE FailedLine(inv, items, 1)]

NewOrder(inv, u, items, discount) ==
    [userId |-> u, items |-> items, status |-> "pending",
     paymentStatus |-> "pending", totalAmount |-> OrderTotal(inv, items, 1),
     discount |-> discount, cancellationReason |-> ""]

\* the stock of each line taken as soon as the line has passed its checks
RECURSIVE DecValidLines(_, _, _)
DecValidLines(inv, items, k) ==
    IF k > Len(items) \/ OrderLineStatus(inv, items[k]) # 0 THEN inv
    ELSE DecValidLines(IncStock(inv, items[k].inventoryId, -items[k].qty),
                       items, k + 1)

CreateOrderEager(u, items, discount) ==
    LET st == CreateOrderStatus(inventory, u, items, discount) IN
    /\ st = 0 => Len(orders) + 1 \in OrderIds
    /\ inventory' = IF u = NoUser \/ u \notin Users THEN inventory
                    ELSE DecValidLines(inventory, items, 1)
    /\ IF st # 0
       THEN /\ orders' = orders
            /\ last' = Resp("createOrder", st, 0, 0)
            /\ snap' = Rejected(inventory, u, items)
       ELSE /\ orders' = Append(orders, NewOrder(inventory, u, items, discount))
            /\ last' = Resp("createOrder", 201, Len(orders) + 1, 0)
            /\ snap' = [kind |-> "order", id |-> Len(orders) + 1,
                        stock |-> Stock(inventory)]
    /\ UNCHANGED <<salesOrders, purchaseOrders, reqs, catalog, carts, users, now>>

CreateOrder(u, items, discount) ==
    LET st == CreateOrderStatus(inventory, u, items, discount) IN
    /\ st = 0 => Len(orders) + 1 \in OrderIds
    /\ IF st # 0
       THEN /\ UNCHANGED <<inventory, orders>>
            /\ last' = Resp("createOrder", st, 0, 0)
            /\ snap' = Rejected(inventory, u, items)
       ELSE /\ orders' = Append(orders, NewOrder(inventory, u, items, discount))
            /\ inventory' = IncAll(inventory, items, 1, -1)
            /\ last' = Resp("createOrder", 201, Len(orders) + 1, 0)
            /\ snap' = [kind |-> "order", id |-> Len(orders) + 1,
                        stock |-> Stock(inventory)]
    /\ UNCHANGED <<salesOrders, purchaseOrders, reqs, catalog, carts, users, now>>

canCancelAny(status) == TRUE

canCancel(status) == status \in {"pending", "confirmed"}

CancelOrderStatusAnyUser(ords, u, id) ==
    IF id \notin DOMAIN ords THEN 404
    ELSE IF ~canCancel(ords[id].status) THEN 400
    ELSE 0

CancelOrderStatus(ords, u, id) ==
    IF id \notin DOMAIN ords THEN 404
    ELSE IF ords[id].userId # u /\ Role(u) # "admin" THEN 403
    ELSE IF ~canCancel(ords[id].status) THEN 400
    ELSE 0

RestoreOrderNone(inv, items, k) == [inv |-> inv, ok |-> TRUE]

\* the restore loop of cancelOrder: item.inventoryId is the populated
\* document, null when the inventory is gone, and reading ._id of it throws
RECURSIVE RestoreOrder(_, _, _)
RestoreOrder(inv, items, k) ==
    IF k > Len(items) THEN [inv |-> inv, ok |-> TRUE]
    ELSE IF ~Exists(inv, items[k].inventoryId) THEN [inv |-> inv, ok |-> FALSE]
    ELSE RestoreOrder(IncStock(inv, items[k].inventoryId, items[k].qty),
                      items, k + 1)

CancelOrder(u, id) ==
    LET st == CancelOrderStatus(orders, u, id) IN
    /\ IF st # 0
       THEN /\ UNCHANGED <<inventory, orders>>
            /\ last' = Resp("cancelOrder", st, id, 0)
            /\ snap' = NoSnap
       ELSE LET r == RestoreOrder(inventory, orders[id].items, 1) IN
            /\ \A i \in DOMAIN r.inv : r.inv[i].stock <= StockCap
            /\ inventory' = r.inv
            /\ orders' = [orders EXCEPT ![id] =
                   [@ EXCEPT !.status = "cancelled",
                             !.cancellationReason = "Cancelled by user",
                             !.paymentStatus =
                                 IF r.ok /\ @ = "paid" THEN "refunded" ELSE @]]
            /\ last' = Resp("cancelOrder", IF r.ok THEN 200 ELSE 400, id, 0)
            /\ snap' = IF r.ok /\ snap.kind = "order" /\ snap.id = id
                       THEN [snap EXCEPT !.kind = "orderUndone"]
                       ELSE NoSnap
    /\ UNCHANGED <<salesOrders, purchaseOrders, reqs, catalog, carts, users, now>>

\* PUT /api/orders/:id/status behind restrictTo('admin'); status "" is absent
UpdateOrderStatus(u, id, status) ==
    /\ IF Role(u) # "admin"
       THEN /\ orders' = orders
            /\ last' = Resp("updateOrderStatus", 403, id, 0)
       ELSE IF id \notin DOMAIN orders
       THEN /\ orders' = orders
            /\ last' = Resp("updateOrderStatus", 404, id, 0)
       ELSE /\ orders' = [orders EXCEPT ![id].status =
                              IF status # "" THEN status ELSE @]
            /\ last' = Resp("updateOrderStatus", 200, id, 0)
    /\ snap' = NoSnap
    /\ UNCHANGED <<inventory, salesOrders, purchaseOrders, reqs, catalog, carts, users, now>>

----------------------------------------------------------------------------
(* The order routes an ordinary user reaches: create and cancel *)

InitOrder ==
    /\ \E st \in [InvIds -> 0 .. MaxStock] :
         inventory = [i \in InvIds |-> LiveDoc(i, 1, st[i])]
    /\ InitRest

NextOrder ==
    \/ \E items \in ItemLists(InvIds, 1 .. MaxQty, MaxLines) :
           CreateOrder("u1", items, 0)
    \/ \E u \in Users, id \in OrderIds : CancelOrder(u, id)

SpecOrder == InitOrder /\ [][NextOrder]_vars

\* C4: a successful createOrder reduces the stock of each inventory by the
\* sum of the quantities of the order lines that reference it, which is 0 for
\* an inventory no line references, and changes nothing else of an inventory.
C4_CreateOrderReducesStock ==
    snap.kind = "order" =>
        /\ last.op = "createOrder" /\ last.status = 201 /\ last.id = snap.id
        /\ \A i \in InvIds :
             inventory[i].stock = snap.stock[i] - LineSum(orders[snap.id].items, i)

C4_Witness ==
    /\ snap.kind = "order"
    /\ \E i, j \in InvIds :
         /\ LineSum(orders[snap.id].items, i) > MaxQty
         /\ LineSum(orders[snap.id].items, j) = 0
         /\ inventory[j].stock = snap.stock[j]

\* C5: createOrder and then cancelOrder of that order, nothing in between,
\* leaves every inventory's stock as it was before createOrder.
C5_CancelRestoresStock ==
    snap.kind = "orderUndone" =>
        /\ last.op = "cancelOrder" /\ last.status = 200 /\ last.id = snap.id
        /\ orders[snap.id].status = "cancelled"
        /\ \A i \in InvIds : inventory[i].stock = snap.stock[i]

C5_Witness ==
    /\ snap.kind = "orderUndone"
    /\ Len(orders[snap.id].items) > 1
    /\ \E i \in InvIds : snap.stock[i] > 0 /\ LineSum(orders[snap.id].items, i) > 0

----------------------------------------------------------------------------
(* Sales orders *)

SLine(i, q, p) == [inventoryId |-> i, qty |-> q, price |-> p]

SalesItemLists(I, Q, P, n) ==
    UNION {[1 .. k -> {SLine(i, q, p) : i \in I, q \in Q, p \in P}] : k \in 1 .. n}

GoneDoc == [doc |-> "gone"]

Found(coll, id) == id \in DOMAIN coll /\ coll[id].doc = "live"

\* SalesOrderModel.findOne({ _id: id, userId })
FoundFor(coll, id, u) == Found(coll, id) /\ coll[id].userId = u

RECURSIVE Subtotal(_, _)
Subtotal(items, k) ==
    IF k > Len(items) THEN 0
    ELSE items[k].qty * items[k].price + Subtotal(items, k + 1)

Max0(x) == IF x < 0 THEN 0 ELSE x

\* the checks createSalesOrder makes on one line, in its order
SalesLineStatus(inv, line) ==
    IF ~Exists(inv, line.inventoryId) THEN 404
    ELSE IF ~inv[line.inventoryId].isActive THEN 400
    ELSE IF inv[line.inventoryId].stock < line.qty THEN 400
    ELSE IF line.qty < 1 THEN 400
    ELSE IF line.price < 0 THEN 400
    ELSE 0

RECURSIVE SalesItemsStatus(_, _, _)
SalesItemsStatus(inv, items, k) ==
    IF k > Len(items) THEN 0
    ELSE LET e == SalesLineStatus(inv, items[k]) IN
         IF e # 0 THEN e ELSE SalesItemsStatus(inv, items, k + 1)

\* customerId "" is absent
CreateSalesOrderStatus(inv, customerId, items) ==
    IF customerId = "" THEN 400
    ELSE IF Len(items) = 0 THEN 400
    ELSE IF customerId \notin Customers THEN 404
    ELSE SalesItemsStatus(inv, items, 1)

CreateSalesOrder(u, customerId, items, totalDiscount) ==
    LET st == CreateSalesOrderStatus(inventory, customerId, items) IN
    /\ st = 0 => Len(salesOrders) + 1 \in SalesOrderIds
    /\ IF st # 0
       THEN /\ UNCHANGED <<inventory, salesOrders>>
            /\ last' = Resp("createSalesOrder", st, 0, 0)
            /\ snap' = NoSnap
       ELSE /\ salesOrders' = Append(salesOrders,
                   [doc |-> "live", userId |-> u, customerId |-> customerId,
                    items |-> items,
                    totalAmount |-> Max0(Subtotal(items, 1) - totalDiscount),
                    totalDiscount |-> totalDiscount])
            /\ inventory' = IncAll(inventory, items, 1, -1)
            /\ last' = Resp("createSalesOrder", 201, Len(salesOrders) + 1, 0)
            /\ snap' = [kind |-> "sales", id |-> Len(salesOrders) + 1,
                        stock |-> Stock(inventory)]
    /\ UNCHANGED <<orders, purchaseOrders, reqs, catalog, carts, users, now>>

\* the validation of the new items in updateSalesOrder: no stock check yet
UpdateSalesLineStatus(inv, line) ==
    IF ~Exists(inv, line.inventoryId) THEN 404
    ELSE IF ~inv[line.inventoryId].isActive THEN 400
    ELSE IF line.qty < 1 THEN 400
    ELSE IF line.price < 0 THEN 400
    ELSE 0

RECURSIVE UpdateSalesItemsStatus(_, _, _)
UpdateSalesItemsStatus(inv, items, k) ==
    IF k > Len(items) THEN 0
    ELSE LET e == UpdateSalesLineStatus(inv, items[k]) IN
         IF e # 0 THEN e ELSE UpdateSalesItemsStatus(inv, items, k + 1)

\* "Check stock availability for new items", read after the reversal
RECURSIVE StockAvailable(_, _, _)
StockAvailable(inv, items, k) ==
    IF k > Len(items) THEN TRUE
    ELSE /\ ~(inv[items[k].inventoryId].stock < items[k].qty)
         /\ StockAvailable(inv, items, k + 1)

\* what updateSalesOrder answers before it writes anything; customerId "" and
\* items <<>> are absent, hasDiscount FALSE is totalDiscount undefined
UpdateSalesOrderStatus(inv, sos, u, id, customerId, hasDiscount, totalDiscount, items) ==
    IF ~FoundFor(sos, id, u) THEN 404
    ELSE IF customerId # "" /\ customerId \notin Customers THEN 404
    ELSE IF hasDiscount /\ totalDiscount < 0 THEN 400
    ELSE IF Len(items) > 0 THEN UpdateSalesItemsStatus(inv, items, 1)
    ELSE 0

UpdateSalesOrder(u, id, customerId, hasDiscount, totalDiscount, items) ==
    LET st == UpdateSalesOrderStatus(inventory, salesOrders, u, id, customerId,
                                     hasDiscount, totalDiscount, items)
        reversed == IncAll(inventory, salesOrders[id].items, 1, 1)
        newItems == IF Len(items) > 0 THEN items ELSE salesOrders[id].items
        newDiscount == IF hasDiscount THEN totalDiscount
                       ELSE salesOrders[id].totalDiscount
        saved == [salesOrders EXCEPT ![id] =
                     [@ EXCEPT !.customerId = IF customerId # "" THEN customerId ELSE @,
                               !.totalDiscount = newDiscount,
                               !.items = newItems,
                               !.totalAmount = Max0(Subtotal(newItems, 1) - newDiscount)]]
    IN
    /\ IF st # 0
       THEN /\ UNCHANGED <<inventory, salesOrders>>
            /\ last' = Resp("updateSalesOrder", st, id, 0)
       ELSE IF Len(items) = 0
       THEN /\ inventory' = inventory
            /\ salesOrders' = saved
            /\ last' = Resp("updateSalesOrder", 200, id, 0)
       ELSE IF ~StockAvailable(reversed, items, 1)
       THEN /\ \A i \in DOMAIN reversed : reversed[i].stock <= StockCap
            /\ inventory' = reversed
            /\ salesOrders' = salesOrders
            /\ last' = Resp("updateSalesOrder", 400, id, 0)
       ELSE /\ inventory' = IncAll(reversed, items, 1, -1)
            /\ salesOrders' = saved
            /\ last' = Resp("updateSalesOrder", 200, id, 0)
    /\ snap' = NoSnap
    /\ UNCHANGED <<orders, purchaseOrders, reqs, catalog, carts, users, now>>

DeleteSalesOrder(u, id) ==
    /\ IF ~FoundFor(salesOrders, id, u)
       THEN /\ UNCHANGED <<inventory, salesOrders>>
            /\ last' = Resp("deleteSalesOrder", 404, id, 0)
            /\ snap' = NoSnap
       ELSE LET restored == IncAll(inventory, salesOrders[id].items, 1, 1) IN
            /\ \A i \in DOMAIN restored : restored[i].stock <= StockCap
            /\ inventory' = restored
            /\ salesOrders' = [salesOrders EXCEPT ![id] = GoneDoc]
            /\ last' = Resp("deleteSalesOrder", 200, id, 0)
            /\ snap' = IF snap.kind = "sales" /\ snap.id = id
                       THEN [snap EXCEPT !.kind = "salesUndone"]
                       ELSE NoSnap
    /\ UNCHANGED <<orders, purchaseOrders, reqs, catalog, carts, users, now>>

----------------------------------------------------------------------------
(* The sales-order routes *)

NextSales ==
    \/ \E items \in SalesItemLists(InvIds, 1 .. MaxQty, {5}, MaxLines) :
           CreateSalesOrder("u1", "c1", items, 0)
    \/ \E u \in {"u1", "u2"}, id \in SalesOrderIds : DeleteSalesOrder(u, id)

SpecSales == InitOrder /\ [][NextSales]_vars

\* C6: creating a sales order with q units of an inventory at stock s makes
\* the stock s - q, and deleting that sales order next removes it and puts
\* every stock back to s.
C6_SalesCreateDeleteNeutral ==
    /\ snap.kind = "sales" =>
         /\ last.op = "createSalesOrder" /\ last.status = 201
         /\ Found(salesOrders, snap.id)
         /\ \A i \in InvIds :
              inventory[i].stock
                  = snap.stock[i] - LineSum(salesOrders[snap.id].items, i)
    /\ snap.kind = "salesUndone" =>
         /\ last.op = "deleteSalesOrder" /\ last.status = 200
         /\ ~Found(salesOrders, snap.id)
         /\ \A i \in InvIds : inventory[i].stock = snap.stock[i]

C6_Witness ==
    /\ snap.kind = "salesUndone"
    /\ \E i \in InvIds : snap.stock[i] = MaxStock /\ inventory[i].stock = MaxStock

----------------------------------------------------------------------------
(* Purchase orders *)

PurchaseLineStatus(inv, line) ==
    IF ~Exists(inv, line.inventoryId) THEN 404
    ELSE IF line.qty < 1 THEN 400
    ELSE IF line.price < 0 THEN 400
    ELSE 0

RECURSIVE PurchaseItemsStatus(_, _, _)
PurchaseItemsStatus(inv, items, k) ==
    IF k > Len(items) THEN 0
    ELSE LET e == PurchaseLineStatus(inv, items[k]) IN
         IF e # 0 THEN e ELSE PurchaseItemsStatus(inv, items, k + 1)

CreatePurchaseOrderStatus(inv, supplierId, items) ==
    IF supplierId = "" THEN 400
    ELSE IF Len(items) = 0 THEN 400
    ELSE IF supplierId \notin Suppliers THEN 404
    ELSE PurchaseItemsStatus(inv, items, 1)

NewPurchaseOrder(u, supplierId, items, discount) ==
    [doc |-> "live", userId |-> u, supplierId |-> supplierId, items |-> items,
     totalAmount |-> Max0(Subtotal(items, 1) - discount),
     discount |-> discount, status |-> "pending"]

\* createPurchaseOrder as it would be if it received the goods into stock
CreatePurchaseOrderStocking(u, supplierId, items, discount) ==
    LET st == CreatePurchaseOrderStatus(inventory, supplierId, items) IN
    /\ st = 0 /\ Len(purchaseOrders) + 1 \in PurchaseOrderIds
    /\ purchaseOrders' = Append(purchaseOrders,
                                NewPurchaseOrder(u, supplierId, items, discount))
    /\ inventory' = IncAll(inventory, items, 1, 1)
    /\ last' = Resp("createPurchaseOrder", 201, Len(purchaseOrders) + 1, 0)
    /\ snap' = [kind |-> "purchase", id |-> Len(purchaseOrders) + 1,
                stock |-> Stock(inventory)]
    /\ UNCHANGED <<orders, salesOrders, reqs, catalog, carts, users, now>>

CreatePurchaseOrder(u, supplierId, items, discount) ==
    LET st == CreatePurchaseOrderStatus(inventory, supplierId, items) IN
    /\ st = 0 => Len(purchaseOrders) + 1 \in PurchaseOrderIds
    /\ IF st # 0
       THEN /\ UNCHANGED <<inventory, purchaseOrders>>
            /\ last' = Resp("createPurchaseOrder", st, 0, 0)
            /\ snap' = NoSnap
       ELSE /\ purchaseOrders' = Append(purchaseOrders,
                   NewPurchaseOrder(u, supplierId, items, discount))
            /\ inventory' = inventory
            /\ last' = Resp("createPurchaseOrder", 201, Len(purchaseOrders) + 1, 0)
            /\ snap' = [kind |-> "purchase", id |-> Len(purchaseOrders) + 1,
                        stock |-> Stock(inventory)]
    /\ UNCHANGED <<orders, salesOrders, reqs, catalog, carts, users, now>>

\* PurchaseOrderModel.findOneAndDelete({ _id: id, userId })
DeletePurchaseOrder(u, id) ==
    /\ IF ~FoundFor(purchaseOrders, id, u)
       THEN /\ UNCHANGED <<inventory, purchaseOrders>>
            /\ last' = Resp("deletePurchaseOrder", 404, id, 0)
            /\ snap' = NoSnap
       ELSE /\ inventory' = inventory
            /\ purchaseOrders' = [purchaseOrders EXCEPT ![id] = GoneDoc]
            /\ last' = Resp("deletePurchaseOrder", 200, id, 0)
            /\ snap' = IF snap.kind = "purchase" /\ snap.id = id
                       THEN [snap EXCEPT !.kind = "purchaseUndone"]
                       ELSE NoSnap
    /\ UNCHANGED <<orders, salesOrders, reqs, catalog, carts, users, now>>

----------------------------------------------------------------------------
(* The purchase-order routes, with the stock route that moves stock *)

NextPurchase ==
    \/ \E items \in SalesItemLists(InvIds, {1, MaxQty}, {5}, MaxLines) :
           CreatePurchaseOrder("u1", "s1", items, 0)
    \/ \E u \in {"u1", "u2"}, id \in PurchaseOrderIds : DeletePurchaseOrder(u, id)
    \/ \E id \in InvIds, q \in 1 .. MaxQty : DecrementStock(id, q)

SpecPurchase == InitOrder /\ [][NextPurchase]_vars

----------------------------------------------------------------------------
(* Orders and sales orders together: the requests that succeed *)

\* quantity of inventory i held by the orders that are not cancelled
RECURSIVE HeldByOrders(_, _, _)
HeldByOrders(ords, i, k) ==
    IF k > Len(ords) THEN 0
    ELSE (IF ords[k].status # "cancelled" THEN LineSum(ords[k].items, i) ELSE 0)
         + HeldByOrders(ords, i, k + 1)

\* quantity of inventory i held by the sales orders that exist
RECURSIVE HeldBySales(_, _, _)
HeldBySales(sos, i, k) ==
    IF k > Len(sos) THEN 0
    ELSE (IF sos[k].doc = "live" THEN LineSum(sos[k].items, i) ELSE 0)
         + HeldBySales(sos, i, k + 1)

Paired(inv, ords, sos, i) ==
    inv[i].stock + HeldByOrders(ords, i, 1) + HeldBySales(sos, i, 1)

Succeeds == last'.status \in {200, 201}

NextPaired ==
    \/ \E items \in ItemLists(InvIds, {1, MaxQty}, MaxLines) :
           CreateOrder("u1", items, 0) /\ Succeeds
    \/ \E u \in {"u1", "admin"}, id \in OrderIds : CancelOrder(u, id) /\ Succeeds
    \/ \E items \in SalesItemLists(InvIds, {1, MaxQty}, {5}, 1) :
           CreateSalesOrder("u1", "c1", items, 0) /\ Succeeds
    \/ \E id \in SalesOrderIds,
          items \in {<<>>} \cup SalesItemLists(InvIds, {MaxQty}, {5}, MaxLines) :
           UpdateSalesOrder("u1", id, "", FALSE, 0, items) /\ Succeeds
    \/ \E id \in SalesOrderIds : DeleteSalesOrder("u1", id) /\ Succeeds

SpecPaired == InitOrder /\ [][NextPaired]_vars

\* C7: over successful createOrder, cancelOrder, createSalesOrder,
\* updateSalesOrder and deleteSalesOrder requests run one at a time, for each
\* inventory the stock plus the quantity held by non-cancelled orders plus the
\* quantity held by existing sales orders stays constant.
C7_PairingConserved ==
    [][\A i \in InvIds :
           Paired(inventory', orders', salesOrders', i)
               = Paired(inventory, orders, salesOrders, i)]_vars

C7_Witness ==
    /\ last.op = "updateSalesOrder" /\ last.status = 200
    /\ Len(orders) > 0 /\ orders[1].status = "pending"
    /\ \E i \in InvIds :
         /\ LineSum(orders[1].items, i) > 0
         /\ LineSum(salesOrders[last.id].items, i) > 0
         /\ inventory[i].stock < 0

----------------------------------------------------------------------------
(* Every route that writes stock or an order, one request at a time *)

Init ==
    /\ \E s \in 0 .. MaxStock :
         inventory = [i \in InvIds |-> IF i = 1 THEN LiveDoc(1, 1, s) ELSE NoDoc]
    /\ InitRest

Next ==
    \/ \E d \in [item : ItemIds, size : SizeIds, color : {1}, price : {5},
                 stock : {-1, MaxStock}] : CreateInventory(d)
    \/ \E id \in InvIds,
          u \in [item : {0}, size : {0, 2}, color : {0}, hasStock : BOOLEAN,
                 stock : {-1, 0}] : UpdateInventory(id, u)
    \/ \E id \in InvIds, st \in {-1, MaxStock} : UpdateStock(id, st)
    \/ \E id \in InvIds, q \in {0, 1} : IncrementStock(id, q)
    \/ \E id \in InvIds, q \in {0, 1, MaxQty} : DecrementStock(id, q)
    \/ \E id \in InvIds : DeleteInventory(id)
    \/ \E items \in ItemLists({1}, {1}, MaxLines) : CreateOrder("u1", items, 0)
    \/ \E u \in {"u1", "u2"}, id \in OrderIds : CancelOrder(u, id)
    \/ \E u \in {"u1", "admin"}, id \in OrderIds,
          status \in {"", "shipped", "cancelled"} : UpdateOrderStatus(u, id, status)
    \/ \E items \in SalesItemLists({1}, {1}, {5}, MaxLines) :
           CreateSalesOrder("u1", "c1", items, 0)
    \/ \E id \in SalesOrderIds, items \in {<<>>, <<SLine(1, MaxQty, 5)>>} :
           UpdateSalesOrder("u1", id, "", FALSE, 0, items)
    \/ \E id \in SalesOrderIds : DeleteSalesOrder("u1", id)

Spec == Init /\ [][Next]_vars

C8_CancelledMeansRestored ==
    [][\A id \in DOMAIN orders :
           (orders[id].status # "cancelled" /\ orders'[id].status = "cancelled")
               => \A i \in InvIds :
                      Exists(inventory, i) =>
                          inventory'[i].stock
                              = inventory[i].stock + LineSum(orders[id].items, i)]_vars

----------------------------------------------------------------------------
(* The inventory routes alone *)

CreateInputs ==
    [item : ItemIds, size : SizeIds, color : ColorIds, price : {0, 5},
     stock : -1 .. MaxStock]

UpdateInputs ==
    [item : {0}, size : {0} \cup SizeIds, color : {0},
     hasStock : BOOLEAN, stock : -1 .. MaxStock]

InitInv ==
    /\ \E s \in 0 .. MaxStock :
         inventory = [i \in InvIds |-> IF i = 1 THEN LiveDoc(1, 1, s) ELSE NoDoc]
    /\ InitRest

NextInv ==
    \/ \E d \in CreateInputs : CreateInventory(d)
    \/ \E id \in InvIds, u \in UpdateInputs : UpdateInventory(id, u)
    \/ \E id \in InvIds, s \in -1 .. MaxStock : UpdateStock(id, s)
    \/ \E id \in InvIds, q \in 0 .. MaxQty : IncrementStock(id, q)
    \/ \E id \in InvIds, q \in 0 .. MaxQty + 1 : DecrementStock(id, q)
    \/ \E id \in InvIds : DeleteInventory(id)

SpecInv == InitInv /\ [][NextInv]_vars

----------------------------------------------------------------------------
\* C3: decrementStock with a quantity greater than the current stock is
\* answered 400 and leaves the stock (the whole inventory collection) as it
\* was.
C3_DecrementRejected ==
    [][(/\ last'.op = "decrementStock"
        /\ Exists(inventory, last'.id)
        /\ last'.qty > inventory[last'.id].stock)
       => (last'.status = 400 /\ inventory' = inventory)]_vars

C3_Witness ==
    /\ last.op = "decrementStock"
    /\ last.status = 400
    /\ Exists(inventory, last.id)
    /\ last.qty > inventory[last.id].stock
    /\ inventory[last.id].stock > 0

----------------------------------------------------------------------------
(* createOrder and createSalesOrder step by step: every await of the handler *)
(* is one step, so that the steps of two requests interleave                 *)

Procs == {1, 2}      \* the requests a run has in flight

\* a run that keeps a ledger has in snap the stock it started with and, for
\* each inventory, the sum of the $inc it has applied since
Keep(s) == IF s.kind = "ledger" THEN s ELSE NoSnap

Book(s, inv, id, d) ==
    IF s.kind = "ledger"
    THEN IF Exists(inv, id) THEN [s EXCEPT !.applied[id] = @ + d] ELSE s
    ELSE NoSnap

Idle == [pc |-> "idle", u |-> "", items |-> <<>>, k |-> 0, id |-> 0]

Done(r, pc) == [r EXCEPT !.pc = pc]

\* the checks of createOrder before its validation loop
CreateOrderEntryStatus(u, items) ==
    IF u = NoUser THEN 401
    ELSE IF u \notin Users THEN 404
    ELSE IF Len(items) = 0 THEN 400
    ELSE 0

\* the request arrives: req.user, User.findById, the items array
StartCreateOrder(p, u, items) ==
    LET st == CreateOrderEntryStatus(u, items) IN
    /\ reqs[p].pc = "idle"
    /\ IF st # 0
       THEN /\ reqs' = [reqs EXCEPT ![p] = Done(@, "done")]
            /\ last' = Resp("createOrder", st, 0, 0)
       ELSE /\ reqs' = [reqs EXCEPT ![p] =
                   [pc |-> "order.validate", u |-> u, items |-> items,
                    k |-> 1, id |-> 0]]
            /\ last' = last
    /\ snap' = Keep(snap)
    /\ UNCHANGED <<inventory, orders, salesOrders, purchaseOrders, catalog, carts, users, now>>

\* one turn of the validation loop: InventoryModel.findById and the checks
ValidateOrderLine(p) ==
    LET r == reqs[p]
        e == OrderLineStatus(inventory, r.items[r.k]) IN
    /\ r.pc = "order.validate"
    /\ IF e # 0
       THEN /\ reqs' = [reqs EXCEPT ![p] = Done(@, "done")]
            /\ last' = Resp("createOrder", e, 0, 0)
       ELSE /\ reqs' = [reqs EXCEPT ![p] =
                   IF r.k = Len(r.items)
                   THEN [@ EXCEPT !.pc = "order.save", !.k = 1]
                   ELSE [@ EXCEPT !.k = @ + 1]]
            /\ last' = last
    /\ snap' = Keep(snap)
    /\ UNCHANGED <<inventory, orders, salesOrders, purchaseOrders, catalog, carts, users, now>>

\* await order.save()
SaveOrder(p) ==
    LET r == reqs[p] IN
    /\ r.pc = "order.save"
    /\ orders' = Append(orders, NewOrder(inventory, r.u, r.items, 0))
    /\ reqs' = [reqs EXCEPT ![p] = [@ EXCEPT !.pc = "order.dec", !.id = Len(orders) + 1]]
    /\ snap' = Keep(snap)
    /\ UNCHANGED <<inventory, salesOrders, purchaseOrders, last, catalog, carts, users, now>>

\* one turn of the stock loop: findByIdAndUpdate $inc stock by -qty; after
\* the last turn the order is read back and answered 201
DecOrderLine(p) ==
    LET r == reqs[p] IN
    /\ r.pc = "order.dec"
    /\ inventory' = IncStock(inventory, r.items[r.k].inventoryId, -r.items[r.k].qty)
    /\ IF r.k = Len(r.items)
       THEN /\ reqs' = [reqs EXCEPT ![p] = Done(@, "done")]
            /\ last' = Resp("createOrder", 201, r.id, 0)
       ELSE /\ reqs' = [reqs EXCEPT ![p] = [@ EXCEPT !.k = @ + 1]]
            /\ last' = last
    /\ snap' = Book(snap, inventory, r.items[r.k].inventoryId, -r.items[r.k].qty)
    /\ UNCHANGED <<orders, salesOrders, purchaseOrders, catalog, carts, users, now>>

\* the checks of createSalesOrder before its validation loop
CreateSalesOrderEntryStatus(customerId, items) ==
    IF customerId = "" THEN 400
    ELSE IF Len(items) = 0 THEN 400
    ELSE IF customerId \notin Customers THEN 404
    ELSE 0

StartCreateSalesOrder(p, u, customerId, items) ==
    LET st == CreateSalesOrderEntryStatus(customerId, items) IN
    /\ reqs[p].pc = "idle"
    /\ IF st # 0
       THEN /\ reqs' = [reqs EXCEPT ![p] = Done(@, "done")]
            /\ last' = Resp("createSalesOrder", st, 0, 0)
       ELSE /\ reqs' = [reqs EXCEPT ![p] =
                   [pc |-> "sales.validate", u |-> u, items |-> items,
                    k |-> 1, id |-> 0]]
            /\ last' = last
    /\ snap' = Keep(snap)
    /\ UNCHANGED <<inventory, orders, salesOrders, purchaseOrders, catalog, carts, users, now>>

ValidateSalesLine(p) ==
    LET r == reqs[p]
        e == SalesLineStatus(inventory, r.items[r.k]) IN
    /\ r.pc = "sales.validate"
    /\ IF e # 0
       THEN /\ reqs' = [reqs EXCEPT ![p] = Done(@, "done")]
            /\ last' = Resp("createSalesOrder", e, 0, 0)
       ELSE /\ reqs' = [reqs EXCEPT ![p] =
                   IF r.k = Len(r.items)
                   THEN [@ EXCEPT !.pc = "sales.save", !.k = 1]
                   ELSE [@ EXCEPT !.k = @ + 1]]
            /\ last' = last
    /\ snap' = Keep(snap)
    /\ UNCHANGED <<inventory, orders, salesOrders, purchaseOrders, catalog, carts, users, now>>

\* await SalesOrderModel.create(...)
SaveSalesOrder(p) ==
    LET r == reqs[p] IN
    /\ r.pc = "sales.save"
    /\ salesOrders' = Append(salesOrders,
           [doc |-> "live", userId |-> r.u, customerId |-> "c1",
            items |-> r.items, totalAmount |-> Max0(Subtotal(r.items, 1) - 0),
            totalDiscount |-> 0])
    /\ reqs' = [reqs EXCEPT ![p] =
           [@ EXCEPT !.pc = "sales.dec", !.id = Len(salesOrders) + 1]]
    /\ snap' = Keep(snap)
    /\ UNCHANGED <<inventory, orders, purchaseOrders, last, catalog, carts, users, now>>

DecSalesLine(p) ==
    LET r == reqs[p] IN
    /\ r.pc = "sales.dec"
    /\ inventory' = IncStock(inventory, r.items[r.k].inventoryId, -r.items[r.k].qty)
    /\ IF r.k = Len(r.items)
       THEN /\ reqs' = [reqs EXCEPT ![p] = Done(@, "done")]
            /\ last' = Resp("createSalesOrder", 201, r.id, 0)
       ELSE /\ reqs' = [reqs EXCEPT ![p] = [@ EXCEPT !.k = @ + 1]]
            /\ last' = last
    /\ snap' = Book(snap, inventory, r.items[r.k].inventoryId, -r.items[r.k].qty)
    /\ UNCHANGED <<orders, salesOrders, purchaseOrders, catalog, carts, users, now>>

InitRace ==
    /\ \E st \in [InvIds -> 0 .. MaxStock] :
         inventory = [i \in InvIds |-> LiveDoc(i, 1, st[i])]
    /\ orders = <<>>
    /\ salesOrders = <<>>
    /\ purchaseOrders = <<>>
    /\ catalog = FullCatalog
    /\ carts = <<>>
    /\ users = [u \in Users |-> LoggedOut]
    /\ now = 0
    /\ reqs = [p \in Procs |-> Idle]
    /\ last = Resp("none", 0, 0, 0)
    /\ snap = NoSnap

\* two requests of one line each
NextRace ==
    \/ \E p \in Procs, items \in ItemLists(InvIds, 1 .. MaxQty, 1) :
           StartCreateOrder(p, "u1", items)
    \/ \E p \in Procs : ValidateOrderLine(p)
    \/ \E p \in Procs : SaveOrder(p)
    \/ \E p \in Procs : DecOrderLine(p)
    \/ \E p \in Procs, items \in SalesItemLists(InvIds, 1 .. MaxQty, {5}, 1) :
           StartCreateSalesOrder(p, "u1", "c1", items)
    \/ \E p \in Procs : ValidateSalesLine(p)
    \/ \E p \in Procs : SaveSalesOrder(p)
    \/ \E p \in Procs : DecSalesLine(p)

SpecRace == InitRace /\ [][NextRace]_vars

----------------------------------------------------------------------------
(* A handler that stops part way: the process dies at an await, what it held *)
(* in memory is lost and the collections stay as the writes so far left them *)

Crash(p) ==
    LET r == reqs[p] IN
    /\ r.pc \in {"order.validate", "order.save", "order.dec",
                 "sales.validate", "sales.save", "sales.dec"}
    /\ reqs' = [reqs EXCEPT ![p] =
           Done(@, IF r.pc \in {"order.validate", "order.save", "order.dec"}
                   THEN "order.crashed" ELSE "sales.crashed")]
    /\ last' = Resp("crash", 0, r.id, 0)
    /\ snap' = Keep(snap)
    /\ UNCHANGED <<inventory, orders, salesOrders, purchaseOrders, catalog, carts, users, now>>

\* quantity of inventory i that request r has saved in its document and has
\* still to take from the stock
Remaining(r, i) ==
    IF r.pc \in {"order.dec", "sales.dec"} THEN LineSumFrom(r.items, i, r.k) ELSE 0

RECURSIVE OwedFrom(_, _, _)
OwedFrom(rs, i, p) ==
    IF p \notin DOMAIN rs THEN 0
    ELSE Remaining(rs[p], i) + OwedFrom(rs, i, p + 1)

Owed(rs, i) == OwedFrom(rs, i, 1)

\* the books of inventory i: stock and quantities held by documents, less
\* what running requests are about to take
Balance(inv, ords, sos, rs, i) == Paired(inv, ords, sos, i) - Owed(rs, i)

InitCrash ==
    /\ \E st \in [InvIds -> 0 .. MaxStock] :
         inventory = [i \in InvIds |-> LiveDoc(i, 1, st[i])]
    /\ orders = <<>>
    /\ salesOrders = <<>>
    /\ purchaseOrders = <<>>
    /\ catalog = FullCatalog
    /\ carts = <<>>
    /\ users = [u \in Users |-> LoggedOut]
    /\ now = 0
    /\ reqs = [p \in Procs |-> Idle]
    /\ last = Resp("none", 0, 0, 0)
    /\ snap = NoSnap

\* one createOrder and one createSalesOrder step by step, either may stop;
\* around them the requests a user makes on the documents they leave
NextCrash ==
    \/ \E items \in ItemLists(InvIds, {1}, MaxLines) :
           StartCreateOrder(1, "u1", items)
    \/ ValidateOrderLine(1)
    \/ SaveOrder(1)
    \/ DecOrderLine(1)
    \/ \E items \in SalesItemLists(InvIds, {MaxQty}, {5}, 1) :
           StartCreateSalesOrder(2, "u1", "c1", items)
    \/ ValidateSalesLine(2)
    \/ SaveSalesOrder(2)
    \/ DecSalesLine(2)
    \/ \E p \in Procs : Crash(p)
    \/ \E id \in DOMAIN orders : CancelOrder("u1", id)
    \/ \E id \in DOMAIN salesOrders, items \in {<<>>, <<SLine(1, MaxQty, 5)>>} :
           UpdateSalesOrder("u1", id, "", FALSE, 0, items)
    \/ \E id \in DOMAIN salesOrders : DeleteSalesOrder("u1", id)

SpecCrash == InitCrash /\ [][NextCrash]_vars

\* C10: when createOrder or createSalesOrder stops after its document is
\* saved and before every stock decrement is applied, the document stays
\* stored and the stock stays as it was, so the books of each inventory rise
\* by the quantity of the lines not yet applied; nothing records that
\* quantity, and no later step of any request lowers the books again.
C10_CrashDesynchronises ==
    [][/\ \A p \in Procs :
            (reqs[p].pc \in {"order.dec", "sales.dec"}
                 /\ reqs'[p].pc \in {"order.crashed", "sales.crashed"})
            => /\ orders' = orders /\ salesOrders' = salesOrders
               /\ inventory' = inventory
               /\ \A i \in InvIds :
                    /\ Remaining(reqs'[p], i) = 0
                    /\ Balance(inventory', orders', salesOrders', reqs', i)
                         = Balance(inventory, orders, salesOrders, reqs, i)
                             + Remaining(reqs[p], i)
       /\ Len(orders') >= Len(orders)
       /\ \A id \in DOMAIN orders : orders'[id].items = orders[id].items
       /\ \A i \in InvIds :
            Balance(inventory', orders', salesOrders', reqs', i)
                >= Balance(inventory, orders, salesOrders, reqs, i)]_vars

C10_Witness ==
    /\ reqs[1].pc = "order.crashed"
    /\ reqs[1].id \in DOMAIN orders
    /\ reqs[1].k > 1 /\ reqs[1].k <= Len(reqs[1].items)
    /\ orders[reqs[1].id].status = "cancelled"
    /\ last.op = "deleteSalesOrder" /\ last.status = 200

----------------------------------------------------------------------------
(* The stock routes step by step: findById, then inventory.save()            *)

StockOps == {"updateStock", "incrementStock", "decrementStock"}

IdleStock == [pc |-> "idle", op |-> "", id |-> 0, quantity |-> 0,
              read |-> 0, write |-> 0]

\* what the handler answers once it has read the document; 0 means it goes on
StockRequestStatus(inv, op, id, quantity) ==
    IF op = "updateStock" THEN UpdateStockStatus(inv, id, quantity)
    ELSE IF op = "incrementStock" THEN IncrementStockStatus(inv, id, quantity)
    ELSE DecrementStockStatus(inv, id, quantity)

\* the value the handler assigns to inventory.stock of the document it read
NewStock(op, stock, quantity) ==
    IF op = "updateStock" THEN quantity
    ELSE IF op = "incrementStock" THEN stock + quantity
    ELSE stock - quantity

\* the checks on the body, InventoryModel.findById(id) and the assignment to
\* the stock of the copy read
FindForStock(p, op, id, quantity) ==
    LET st == StockRequestStatus(inventory, op, id, quantity) IN
    /\ reqs[p].pc = "idle"
    /\ IF st # 0
       THEN /\ reqs' = [reqs EXCEPT ![p] =
                   [pc |-> "failed", op |-> op, id |-> id, quantity |-> quantity,
                    read |-> 0, write |-> 0]]
            /\ last' = Resp(op, st, id, quantity)
       ELSE /\ reqs' = [reqs EXCEPT ![p] =
                   [pc |-> "save", op |-> op, id |-> id, quantity |-> quantity,
                    read |-> inventory[id].stock,
                    write |-> NewStock(op, inventory[id].stock, quantity)]]
            /\ last' = last
    /\ UNCHANGED <<inventory, orders, salesOrders, purchaseOrders, snap, catalog, carts, users, now>>

SavedStockInc(inv, r) == [inv EXCEPT ![r.id].stock = @ + (r.write - r.read)]

\* inventory.save(): the stock of the copy is written over the stored one
SavedStock(inv, r) == [inv EXCEPT ![r.id].stock = r.write]

SaveStock(p) ==
    LET r == reqs[p] IN
    /\ r.pc = "save"
    /\ inventory' = SavedStock(inventory, r)
    /\ reqs' = [reqs EXCEPT ![p].pc = "ok"]
    /\ last' = Resp(r.op, 200, r.id, r.quantity)
    /\ UNCHANGED <<orders, salesOrders, purchaseOrders, snap, catalog, carts, users, now>>

\* snap keeps the stock the run starts with
InitStockRace ==
    /\ \E st \in [InvIds -> 0 .. MaxStock] :
         inventory = [i \in InvIds |-> LiveDoc(i, 1, st[i])]
    /\ orders = <<>>
    /\ salesOrders = <<>>
    /\ purchaseOrders = <<>>
    /\ catalog = FullCatalog
    /\ carts = <<>>
    /\ users = [u \in Users |-> LoggedOut]
    /\ now = 0
    /\ reqs = [p \in Procs |-> IdleStock]
    /\ last = Resp("none", 0, 0, 0)
    /\ snap = [kind |-> "initial", id |-> 0, stock |-> Stock(inventory)]

NextStockRace ==
    \/ \E p \in Procs, op \in StockOps, id \in InvIds, q \in 0 .. MaxQty :
           FindForStock(p, op, id, q)
    \/ \E p \in Procs : SaveStock(p)

SpecStockRace == InitStockRace /\ [][NextStockRace]_vars

\* the requests answered 200 that wrote inventory i
Acked(rs, i) == {p \in DOMAIN rs : rs[p].pc = "ok" /\ rs[p].id = i}

\* C11: a stock request writes the stock it read plus its own change over
\* whatever is stored, so once requests on an inventory are answered 200 the
\* stock is the value one of them wrote; with two of them interleaved that
\* value can differ from the initial stock plus both acknowledged changes.
C11_LastSaveWins ==
    \A i \in InvIds :
        IF Acked(reqs, i) = {}
        THEN inventory[i].stock = snap.stock[i]
        ELSE \E p \in Acked(reqs, i) : inventory[i].stock = reqs[p].write

C11_Witness ==
    \E i \in InvIds :
        /\ Acked(reqs, i) = Procs
        /\ \A p \in Procs : reqs[p].op \in {"incrementStock", "decrementStock"}
        /\ inventory[i].stock
               # snap.stock[i] + (reqs[1].write - reqs[1].read)
                               + (reqs[2].write - reqs[2].read)

----------------------------------------------------------------------------
(* cancelOrder, updateSalesOrder and deleteSalesOrder step by step.  The     *)
(* inventories of these runs are never deleted or deactivated, so a populated *)
(* reference is always a document and the checks that read no stock are made  *)
(* with the first read                                                        *)

\* Order.findById(id).populate(...) and the checks on the order read
FindOrderToCancel(p, u, id) ==
    LET st == CancelOrderStatus(orders, u, id) IN
    /\ reqs[p].pc = "idle"
    /\ IF st # 0
       THEN /\ reqs' = [reqs EXCEPT ![p] = Done(@, "done")]
            /\ last' = Resp("cancelOrder", st, id, 0)
       ELSE /\ reqs' = [reqs EXCEPT ![p] =
                   [pc |-> "cancel.save", u |-> u, items |-> orders[id].items,
                    k |-> 1, id |-> id]]
            /\ last' = last
    /\ snap' = Keep(snap)
    /\ UNCHANGED <<inventory, orders, salesOrders, purchaseOrders, catalog, carts, users, now>>

\* order.status = 'cancelled', the cancellation fields; await order.save()
SaveCancelled(p) ==
    LET r == reqs[p] IN
    /\ r.pc = "cancel.save"
    /\ orders' = [orders EXCEPT ![r.id].status = "cancelled",
                                ![r.id].cancellationReason = "Cancelled by user"]
    /\ reqs' = [reqs EXCEPT ![p].pc = "cancel.inc"]
    /\ snap' = Keep(snap)
    /\ UNCHANGED <<inventory, salesOrders, purchaseOrders, last, catalog, carts, users, now>>

\* one turn of the restore loop; after the last one a paid order is saved as
\* refunded and the request is answered 200
RestoreOrderLine(p) ==
    LET r == reqs[p] IN
    /\ r.pc = "cancel.inc"
    /\ inventory' = IncStock(inventory, r.items[r.k].inventoryId, r.items[r.k].qty)
    /\ snap' = Book(snap, inventory, r.items[r.k].inventoryId, r.items[r.k].qty)
    /\ IF r.k = Len(r.items)
       THEN /\ reqs' = [reqs EXCEPT ![p] = Done(@, "done")]
            /\ orders' = [orders EXCEPT ![r.id].paymentStatus =
                              IF @ = "paid" THEN "refunded" ELSE @]
            /\ last' = Resp("cancelOrder", 200, r.id, 0)
       ELSE /\ reqs' = [reqs EXCEPT ![p].k = @ + 1]
            /\ orders' = orders
            /\ last' = last
    /\ UNCHANGED <<salesOrders, purchaseOrders, catalog, carts, users, now>>

\* SalesOrderModel.findOne({ _id, userId }), originalItems, and the
\* validation of the new items; items <<>> is absent
FindSalesOrderToUpdate(p, u, id, items) ==
    LET st == UpdateSalesOrderStatus(inventory, salesOrders, u, id, "", FALSE, 0, items) IN
    /\ reqs[p].pc = "idle"
    /\ IF st # 0
       THEN /\ reqs' = [reqs EXCEPT ![p] = Done(@, "done")]
            /\ last' = Resp("updateSalesOrder", st, id, 0)
       ELSE /\ reqs' = [reqs EXCEPT ![p] =
                   [pc |-> IF Len(items) = 0 THEN "update.save" ELSE "update.reverse",
                    u |-> u, items |-> items, k |-> 1, id |-> id,
                    old |-> salesOrders[id].items,
                    totalDiscount |-> salesOrders[id].totalDiscount]]
            /\ last' = last
    /\ snap' = Keep(snap)
    /\ UNCHANGED <<inventory, orders, salesOrders, purchaseOrders, catalog, carts, users, now>>

\* "Reverse original stock changes", one turn
ReverseSalesLine(p) ==
    LET r == reqs[p] IN
    /\ r.pc = "update.reverse"
    /\ inventory' = IncStock(inventory, r.old[r.k].inventoryId, r.old[r.k].qty)
    /\ snap' = Book(snap, inventory, r.old[r.k].inventoryId, r.old[r.k].qty)
    /\ reqs' = [reqs EXCEPT ![p] =
           IF r.k = Len(r.old) THEN [@ EXCEPT !.pc = "update.check", !.k = 1]
           ELSE [@ EXCEPT !.k = @ + 1]]
    /\ UNCHANGED <<orders, salesOrders, purchaseOrders, last, catalog, carts, users, now>>

\* "Check stock availability for new items", one turn
CheckSalesLine(p) ==
    LET r == reqs[p] IN
    /\ r.pc = "update.check"
    /\ IF inventory[r.items[r.k].inventoryId].stock < r.items[r.k].qty
       THEN /\ reqs' = [reqs EXCEPT ![p] = Done(@, "done")]
            /\ last' = Resp("updateSalesOrder", 400, r.id, 0)
       ELSE /\ reqs' = [reqs EXCEPT ![p] =
                   IF r.k = Len(r.items) THEN [@ EXCEPT !.pc = "update.apply", !.k = 1]
                   ELSE [@ EXCEPT !.k = @ + 1]]
            /\ last' = last
    /\ snap' = Keep(snap)
    /\ UNCHANGED <<inventory, orders, salesOrders, purchaseOrders, catalog, carts, users, now>>

\* "Apply new stock changes", one turn
ApplySalesLine(p) ==
    LET r == reqs[p] IN
    /\ r.pc = "update.apply"
    /\ inventory' = IncStock(inventory, r.items[r.k].inventoryId, -r.items[r.k].qty)
    /\ snap' = Book(snap, inventory, r.items[r.k].inventoryId, -r.items[r.k].qty)
    /\ reqs' = [reqs EXCEPT ![p] =
           IF r.k = Len(r.items) THEN [@ EXCEPT !.pc = "update.save", !.k = 1]
           ELSE [@ EXCEPT !.k = @ + 1]]
    /\ UNCHANGED <<orders, salesOrders, purchaseOrders, last, catalog, carts, users, now>>

\* await salesOrder.save(): the changed paths of the copy are written to the
\* stored document; with the document deleted meanwhile nothing is written,
\* and save() throws or not with the version of mongoose installed
SaveSalesUpdate(p) ==
    LET r == reqs[p]
        newItems == IF Len(r.items) > 0 THEN r.items ELSE r.old IN
    /\ r.pc = "update.save"
    /\ IF Found(salesOrders, r.id)
       THEN /\ salesOrders' = [salesOrders EXCEPT ![r.id] =
                   [@ EXCEPT !.items = IF Len(r.items) > 0 THEN r.items ELSE @,
                             !.totalAmount =
                                 Max0(Subtotal(newItems, 1) - r.totalDiscount)]]
            /\ last' = Resp("updateSalesOrder", 200, r.id, 0)
       ELSE /\ salesOrders' = salesOrders
            /\ \E st \in {200, 500} : last' = Resp("updateSalesOrder", st, r.id, 0)
    /\ reqs' = [reqs EXCEPT ![p] = Done(@, "done")]
    /\ snap' = Keep(snap)
    /\ UNCHANGED <<inventory, orders, purchaseOrders, catalog, carts, users, now>>

\* SalesOrderModel.findOne({ _id, userId }) of deleteSalesOrder
FindSalesOrderToDelete(p, u, id) ==
    /\ reqs[p].pc = "idle"
    /\ IF ~FoundFor(salesOrders, id, u)
       THEN /\ reqs' = [reqs EXCEPT ![p] = Done(@, "done")]
            /\ last' = Resp("deleteSalesOrder", 404, id, 0)
       ELSE /\ reqs' = [reqs EXCEPT ![p] =
                   [pc |-> "delete.inc", u |-> u, items |-> salesOrders[id].items,
                    k |-> 1, id |-> id]]
            /\ last' = last
    /\ snap' = Keep(snap)
    /\ UNCHANGED <<inventory, orders, salesOrders, purchaseOrders, catalog, carts, users, now>>

\* "Reverse stock changes", one turn
RestoreSalesLine(p) ==
    LET r == reqs[p] IN
    /\ r.pc = "delete.inc"
    /\ inventory' = IncStock(inventory, r.items[r.k].inventoryId, r.items[r.k].qty)
    /\ snap' = Book(snap, inventory, r.items[r.k].inventoryId, r.items[r.k].qty)
    /\ reqs' = [reqs EXCEPT ![p] =
           IF r.k = Len(r.items) THEN [@ EXCEPT !.pc = "delete.delete"]
           ELSE [@ EXCEPT !.k = @ + 1]]
    /\ UNCHANGED <<orders, salesOrders, purchaseOrders, last, catalog, carts, users, now>>

\* await SalesOrderModel.findByIdAndDelete(id), then 200
DeleteSalesDoc(p) ==
    LET r == reqs[p] IN
    /\ r.pc = "delete.delete"
    /\ salesOrders' = [salesOrders EXCEPT ![r.id] = GoneDoc]
    /\ reqs' = [reqs EXCEPT ![p] = Done(@, "done")]
    /\ last' = Resp("deleteSalesOrder", 200, r.id, 0)
    /\ snap' = Keep(snap)
    /\ UNCHANGED <<inventory, orders, purchaseOrders, catalog, carts, users, now>>

\* an order and a sales order of u1 exist, each of one unit of inventory 1;
\* snap holds the ledger
InitLedger ==
    /\ \E st \in [InvIds -> 0 .. MaxStock] :
         inventory = [i \in InvIds |-> LiveDoc(i, 1, st[i])]
    /\ orders = <<NewOrder(inventory, "u1", <<Line(1, 1)>>, 0)>>
    /\ salesOrders = <<[doc |-> "live", userId |-> "u1", customerId |-> "c1",
                        items |-> <<SLine(1, 1, 5)>>, totalAmount |-> 5,
                        totalDiscount |-> 0]>>
    /\ purchaseOrders = <<>>
    /\ catalog = FullCatalog
    /\ carts = <<>>
    /\ users = [u \in Users |-> LoggedOut]
    /\ now = 0
    /\ reqs = [p \in Procs |-> Idle]
    /\ last = Resp("none", 0, 0, 0)
    /\ snap = [kind |-> "ledger", id |-> 0, stock |-> Stock(inventory),
               applied |-> [i \in InvIds |-> 0]]

NextLedger ==
    \/ \E p \in Procs, items \in ItemLists(InvIds, {MaxQty}, MaxLines) :
           StartCreateOrder(p, "u1", items)
    \/ \E p \in Procs : ValidateOrderLine(p)
    \/ \E p \in Procs : SaveOrder(p)
    \/ \E p \in Procs : DecOrderLine(p)
    \/ \E p \in Procs, items \in SalesItemLists(InvIds, {1}, {5}, 1) :
           StartCreateSalesOrder(p, "u1", "c1", items)
    \/ \E p \in Procs : ValidateSalesLine(p)
    \/ \E p \in Procs : SaveSalesOrder(p)
    \/ \E p \in Procs : DecSalesLine(p)
    \/ \E p \in Procs, id \in DOMAIN orders : FindOrderToCancel(p, "u1", id)
    \/ \E p \in Procs : SaveCancelled(p)
    \/ \E p \in Procs : RestoreOrderLine(p)
    \/ \E p \in Procs, id \in DOMAIN salesOrders,
          items \in {<<>>} \cup SalesItemLists(InvIds, {MaxQty}, {5}, MaxLines) :
           FindSalesOrderToUpdate(p, "u1", id, items)
    \/ \E p \in Procs : ReverseSalesLine(p)
    \/ \E p \in Procs : CheckSalesLine(p)
    \/ \E p \in Procs : ApplySalesLine(p)
    \/ \E p \in Procs : SaveSalesUpdate(p)
    \/ \E p \in Procs, id \in DOMAIN salesOrders : FindSalesOrderToDelete(p, "u1", id)
    \/ \E p \in Procs : RestoreSalesLine(p)
    \/ \E p \in Procs : DeleteSalesDoc(p)

SpecLedger == InitLedger /\ [][NextLedger]_vars

\* C12: however the steps of createOrder, cancelOrder, createSalesOrder,
\* updateSalesOrder and deleteSalesOrder requests interleave, the stock of
\* each inventory is the stock the run started with plus the sum of the
\* increments and decrements applied so far: no $inc is lost.
C12_NoIncLost ==
    \A i \in InvIds : inventory[i].stock = snap.stock[i] + snap.applied[i]

C12_Witness ==
    /\ \A p \in Procs : reqs[p].pc = "done"
    /\ last.op = "updateSalesOrder" /\ last.status = 200
    /\ Len(orders) = 1 /\ orders[1].status = "cancelled"
    /\ \E i \in InvIds : snap.applied[i] < 0 /\ inventory[i].stock < 0

----------------------------------------------------------------------------
(* The catalog routes that delete an item, a size or a color.  Each is behind *)
(* validateId, which wants the id parameter to be a UUID; the ids of stored   *)
(* documents are ObjectIds, so the handler behind it is never reached with    *)
(* the id of a document                                                       *)

UuidIds == {}        \* the ids of stored documents that are UUIDs: none

\* validateId of validation.middleware: param('id').trim().isUUID()
ValidateId(id) == IF id \in UuidIds THEN 0 ELSE 400

DeleteItem(id) ==
    /\ IF ValidateId(id) # 0
       THEN /\ catalog' = catalog
            /\ last' = Resp("deleteItem", ValidateId(id), id, 0)
       ELSE IF id \notin catalog.item
       THEN /\ catalog' = catalog
            /\ last' = Resp("deleteItem", 404, id, 0)
       ELSE /\ catalog' = [catalog EXCEPT !.item = @ \ {id}]
            /\ last' = Resp("deleteItem", 200, id, 0)
    /\ snap' = NoSnap
    /\ UNCHANGED <<inventory, orders, salesOrders, purchaseOrders, reqs, carts, users, now>>

DeleteSize(id) ==
    /\ IF ValidateId(id) # 0
       THEN /\ catalog' = catalog
            /\ last' = Resp("deleteSize", ValidateId(id), id, 0)
       ELSE IF id \notin catalog.size
       THEN /\ catalog' = catalog
            /\ last' = Resp("deleteSize", 404, id, 0)
       ELSE /\ catalog' = [catalog EXCEPT !.size = @ \ {id}]
            /\ last' = Resp("deleteSize", 200, id, 0)
    /\ snap' = NoSnap
    /\ UNCHANGED <<inventory, orders, salesOrders, purchaseOrders, reqs, carts, users, now>>

DeleteColor(id) ==
    /\ IF ValidateId(id) # 0
       THEN /\ catalog' = catalog
            /\ last' = Resp("deleteColor", ValidateId(id), id, 0)
       ELSE IF id \notin catalog.color
       THEN /\ catalog' = catalog
            /\ last' = Resp("deleteColor", 404, id, 0)
       ELSE /\ catalog' = [catalog EXCEPT !.color = @ \ {id}]
            /\ last' = Resp("deleteColor", 200, id, 0)
    /\ snap' = NoSnap
    /\ UNCHANGED <<inventory, orders, salesOrders, purchaseOrders, reqs, carts, users, now>>

(* The inventory routes that write the combination, with the catalog routes *)

NextCatalog ==
    \/ \E d \in [item : ItemIds, size : SizeIds, color : ColorIds, price : {0, 5},
                 stock : {MaxStock}] : CreateInventory(d)
    \/ \E id \in InvIds,
          u \in [item : {0} \cup ItemIds, size : {0} \cup SizeIds,
                 color : {0} \cup ColorIds, hasStock : BOOLEAN, stock : {-1, 0}] :
           UpdateInventory(id, u)
    \/ \E id \in InvIds : DeleteInventory(id)
    \/ \E id \in ItemIds : DeleteItem(id)
    \/ \E id \in SizeIds : DeleteSize(id)
    \/ \E id \in ColorIds : DeleteColor(id)

SpecCatalog == InitInv /\ [][NextCatalog]_vars

\* the records other than except that hold the combination
Holders(inv, item, size, color, except) ==
    {i \in DOMAIN inv : i # except /\ inv[i].doc = "live" /\ inv[i].item = item
                        /\ inv[i].size = size /\ inv[i].color = color}

\* createInventory with body d names a combination a record holds
DuplicateCreate(inv, d) == Holders(inv, d.item, d.size, d.color, 0) # {}

\* updateInventory of record id with body u names item, size or color and
\* the record would get a combination another record holds
DuplicateUpdate(inv, id, u) ==
    /\ Exists(inv, id)
    /\ u.item # 0 \/ u.size # 0 \/ u.color # 0
    /\ Holders(inv, IF u.item # 0 THEN u.item ELSE inv[id].item,
                    IF u.size # 0 THEN u.size ELSE inv[id].size,
                    IF u.color # 0 THEN u.color ELSE inv[id].color, id) # {}

\* C13: createInventory for a combination that exists, and updateInventory to
\* a combination another record holds, are answered 400 and leave the
\* inventory records unchanged.
C13_DuplicateGets400 ==
    [][/\ (last'.op = "createInventory" /\ DuplicateCreate(inventory, last'.qty))
            => (last'.status = 400 /\ inventory' = inventory)
       /\ (last'.op = "updateInventory"
              /\ DuplicateUpdate(inventory, last'.id, last'.qty))
            => (last'.status = 400 /\ inventory' = inventory)]_vars

C13_Witness ==
    /\ last.op = "updateInventory"
    /\ last.status = 400
    /\ ~last.qty.hasStock
    /\ last.qty.color # 0
    /\ DuplicateUpdate(inventory, last.id, last.qty)

----------------------------------------------------------------------------
(* createInventory and updateInventory step by step: the checks up to the    *)
(* duplicate findOne, then the write                                         *)

IdleInventory == [pc |-> "idle", op |-> "", id |-> 0, body |-> <<>>]

\* createInventory up to and with the duplicate check
CheckInventoryToCreate(p, d) ==
    LET st == CreateInventoryStatus(inventory, catalog, d) IN
    /\ reqs[p].pc = "idle"
    /\ IF st # 0
       THEN /\ reqs' = [reqs EXCEPT ![p] =
                   [pc |-> "done", op |-> "createInventory", id |-> 0, body |-> d]]
            /\ last' = Resp("createInventory", st, 0, d)
       ELSE /\ reqs' = [reqs EXCEPT ![p] =
                   [pc |-> "create", op |-> "createInventory", id |-> 0, body |-> d]]
            /\ last' = last
    /\ UNCHANGED <<inventory, orders, salesOrders, purchaseOrders, catalog, carts, users, now, snap>>

\* await InventoryModel.create({...})
InsertInventory(p) ==
    LET r == reqs[p] IN
    /\ r.pc = "create"
    /\ FreeIds(inventory) # {}
    /\ LET id == MinOf(FreeIds(inventory)) IN
       /\ inventory' = [inventory EXCEPT ![id] =
              [doc |-> "live", item |-> r.body.item, size |-> r.body.size,
               color |-> r.body.color, price |-> r.body.price,
               stock |-> r.body.stock, isActive |-> TRUE]]
       /\ reqs' = [reqs EXCEPT ![p] = [@ EXCEPT !.pc = "done", !.id = id]]
       /\ last' = Resp("createInventory", 201, id, r.body)
    /\ UNCHANGED <<orders, salesOrders, purchaseOrders, catalog, carts, users, now, snap>>

\* updateInventory up to and with the duplicate check
CheckInventoryToUpdate(p, id, u) ==
    LET st == UpdateInventoryStatus(inventory, catalog, id, u) IN
    /\ reqs[p].pc = "idle"
    /\ IF st # 0
       THEN /\ reqs' = [reqs EXCEPT ![p] =
                   [pc |-> "done", op |-> "updateInventory", id |-> id, body |-> u]]
            /\ last' = Resp("updateInventory", st, id, u)
       ELSE /\ reqs' = [reqs EXCEPT ![p] =
                   [pc |-> "update", op |-> "updateInventory", id |-> id, body |-> u]]
            /\ last' = last
    /\ UNCHANGED <<inventory, orders, salesOrders, purchaseOrders, catalog, carts, users, now, snap>>

\* await InventoryModel.findByIdAndUpdate(id, { $set: updateData }, ...)
SetInventory(p) ==
    LET r == reqs[p]
        u == r.body IN
    /\ r.pc = "update"
    /\ IF Exists(inventory, r.id)
       THEN /\ inventory' = [inventory EXCEPT ![r.id] =
                   [@ EXCEPT !.item = IF u.item # 0 THEN u.item ELSE @,
                             !.size = IF u.size # 0 THEN u.size ELSE @,
                             !.color = IF u.color # 0 THEN u.color ELSE @,
                             !.stock = IF u.hasStock THEN u.stock ELSE @]]
            /\ last' = Resp("updateInventory", 200, r.id, u)
       ELSE /\ inventory' = inventory
            /\ last' = Resp("updateInventory", 404, r.id, u)
    /\ reqs' = [reqs EXCEPT ![p].pc = "done"]
    /\ UNCHANGED <<orders, salesOrders, purchaseOrders, catalog, carts, users, now, snap>>

\* the collection is empty or holds one record
InitUnique ==
    /\ \E s \in 0 .. MaxStock :
         inventory \in {[i \in InvIds |-> NoDoc],
                        [i \in InvIds |-> IF i = 1 THEN LiveDoc(1, 1, s) ELSE NoDoc]}
    /\ orders = <<>>
    /\ salesOrders = <<>>
    /\ purchaseOrders = <<>>
    /\ catalog = FullCatalog
    /\ carts = <<>>
    /\ users = [u \in Users |-> LoggedOut]
    /\ now = 0
    /\ reqs = [p \in Procs |-> IdleInventory]
    /\ last = Resp("none", 0, 0, 0)
    /\ snap = NoSnap

NextUnique ==
    \/ \E p \in Procs,
          d \in [item : ItemIds, size : SizeIds, color : ColorIds, price : {5},
                 stock : {0, MaxStock}] : CheckInventoryToCreate(p, d)
    \/ \E p \in Procs : InsertInventory(p)
    \/ \E p \in Procs, id \in InvIds,
          u \in [item : {0}, size : {0} \cup SizeIds, color : {0} \cup ColorIds,
                 hasStock : {FALSE}, stock : {0}] : CheckInventoryToUpdate(p, id, u)
    \/ \E p \in Procs : SetInventory(p)

SpecUnique == InitUnique /\ [][NextUnique]_vars

\* C14: no two inventory records share a combination of item, size and
\* color, in every state, also with two createInventory or updateInventory
\* requests for the same combination interleaved.
C14_CombinationUnique ==
    \A i, j \in InvIds :
        (i # j /\ Exists(inventory, i) /\ Exists(inventory, j))
            => <<inventory[i].item, inventory[i].size, inventory[i].color>>
                   # <<inventory[j].item, inventory[j].size, inventory[j].color>>

----------------------------------------------------------------------------
(* The cart: one document per user, its lines and its stored total.  Prices *)
(* and amounts are in thousandths of the currency unit                       *)

CartUsers == {"u1"}
Prices == {5, 12}

CartLine(inventoryId, qty) == [inventoryId |-> inventoryId, qty |-> qty]

NewCart(u) == [userId |-> u, items |-> <<>>, totalAmount |-> 0]

\* CartModel.findOne({ userId }): the first document of the user, 0 if none
FindCart(cs, u) ==
    IF \E i \in DOMAIN cs : cs[i].userId = u
    THEN MinOf({i \in DOMAIN cs : cs[i].userId = u})
    ELSE 0

\* cart.items.findIndex(item => item.inventoryId.toString() === inventoryId),
\* 0 standing for -1
FindLine(items, inventoryId) ==
    IF \E k \in DOMAIN items : items[k].inventoryId = inventoryId
    THEN MinOf({k \in DOMAIN items : items[k].inventoryId = inventoryId})
    ELSE 0

RECURSIVE RawTotalFrom(_, _, _)
RawTotalFrom(inv, items, k) ==
    IF k > Len(items) THEN 0
    ELSE (IF Exists(inv, items[k].inventoryId)
          THEN inv[items[k].inventoryId].price * items[k].qty
          ELSE 0) + RawTotalFrom(inv, items, k + 1)

\* the loop of calculateCartTotal
RawTotal(inv, items) == RawTotalFrom(inv, items, 1)

\* Math.round(total * 100) / 100.  A total with a 5 in the third decimal
\* place is held as the double nearest to it, which lies on either side of
\* the tie, so both neighbours are outcomes
Round2(t) ==
    IF t % 10 = 5 THEN {t - 5, t + 5} ELSE {((t + 5) \div 10) * 10}

CalculateCartTotalRaw(inv, items) == {RawTotal(inv, items)}

CalculateCartTotal(inv, items) == Round2(RawTotal(inv, items))

\* cart.save(): insert a new document, or write the found one back
SaveCart(cs, c, cart) == IF c = 0 THEN Append(cs, cart) ELSE [cs EXCEPT ![c] = cart]

\* the line check and merge of addToCart and bulkAddToCart: 400 when the
\* merged quantity exceeds the stock read before, else the new lines
MergeStatus(inv, items, inventoryId, qty) ==
    LET k == FindLine(items, inventoryId) IN
    IF k # 0 /\ inv[inventoryId].stock < items[k].qty + qty THEN 400 ELSE 0

Merge(items, inventoryId, qty) ==
    LET k == FindLine(items, inventoryId) IN
    IF k # 0 THEN [items EXCEPT ![k].qty = @ + qty]
    ELSE Append(items, CartLine(inventoryId, qty))

AddToCartStatus(inv, cs, u, inventoryId, qty) ==
    IF inventoryId = InvalidId \/ qty = 0 THEN 400
    ELSE IF qty < 1 THEN 400
    ELSE IF ~Exists(inv, inventoryId) THEN 404
    ELSE IF ~inv[inventoryId].isActive THEN 400
    ELSE IF inv[inventoryId].stock < qty THEN 400
    ELSE LET c == FindCart(cs, u) IN
         MergeStatus(inv, IF c = 0 THEN <<>> ELSE cs[c].items, inventoryId, qty)

GetCart(u) ==
    /\ carts' = IF FindCart(carts, u) = 0 THEN Append(carts, NewCart(u)) ELSE carts
    /\ last' = Resp("getCart", 200, u, 0)
    /\ snap' = NoSnap
    /\ UNCHANGED <<inventory, orders, salesOrders, purchaseOrders, catalog, users, now, reqs>>

AddToCart(u, inventoryId, qty) ==
    LET st == AddToCartStatus(inventory, carts, u, inventoryId, qty)
        c == FindCart(carts, u)
        cart == IF c = 0 THEN NewCart(u) ELSE carts[c]
    IN
    /\ IF st # 0
       THEN /\ carts' = carts
            /\ last' = Resp("addToCart", st, u, qty)
       ELSE LET items == Merge(cart.items, inventoryId, qty) IN
            /\ \E t \in CalculateCartTotal(inventory, items) :
                 carts' = SaveCart(carts, c,
                              [cart EXCEPT !.items = items, !.totalAmount = t])
            /\ last' = Resp("addToCart", 200, u, qty)
    /\ snap' = NoSnap
    /\ UNCHANGED <<inventory, orders, salesOrders, purchaseOrders, catalog, users, now, reqs>>

RECURSIVE BulkCheckStatus(_, _, _)
BulkCheckStatus(inv, items, i) ==
    IF i > Len(items) THEN 0
    ELSE IF ~Exists(inv, items[i].inventoryId) THEN 404
    ELSE IF ~inv[items[i].inventoryId].isActive THEN 400
    ELSE IF inv[items[i].inventoryId].stock < items[i].qty THEN 400
    ELSE BulkCheckStatus(inv, items, i + 1)

RECURSIVE BulkMergeStatus(_, _, _, _)
BulkMergeStatus(inv, lines, items, i) ==
    IF i > Len(items) THEN 0
    ELSE IF MergeStatus(inv, lines, items[i].inventoryId, items[i].qty) # 0 THEN 400
    ELSE BulkMergeStatus(inv, Merge(lines, items[i].inventoryId, items[i].qty),
                         items, i + 1)

RECURSIVE BulkMerge(_, _, _)
BulkMerge(lines, items, i) ==
    IF i > Len(items) THEN lines
    ELSE BulkMerge(Merge(lines, items[i].inventoryId, items[i].qty), items, i + 1)

BulkAddToCartStatus(inv, cs, u, items) ==
    IF items = <<>> THEN 400
    ELSE IF \E i \in DOMAIN items : items[i].inventoryId = InvalidId \/ items[i].qty = 0
    THEN 400
    ELSE IF \E i \in DOMAIN items : items[i].qty < 1 THEN 400
    ELSE IF BulkCheckStatus(inv, items, 1) # 0 THEN BulkCheckStatus(inv, items, 1)
    ELSE LET c == FindCart(cs, u) IN
         BulkMergeStatus(inv, IF c = 0 THEN <<>> ELSE cs[c].items, items, 1)

BulkAddToCart(u, items) ==
    LET st == BulkAddToCartStatus(inventory, carts, u, items)
        c == FindCart(carts, u)
        cart == IF c = 0 THEN NewCart(u) ELSE carts[c]
    IN
    /\ IF st # 0
       THEN /\ carts' = carts
            /\ last' = Resp("bulkAddToCart", st, u, Len(items))
       ELSE LET lines == BulkMerge(cart.items, items, 1) IN
            /\ \E t \in CalculateCartTotal(inventory, lines) :
                 carts' = SaveCart(carts, c,
                              [cart EXCEPT !.items = lines, !.totalAmount = t])
            /\ last' = Resp("bulkAddToCart", 200, u, Len(items))
    /\ snap' = NoSnap
    /\ UNCHANGED <<inventory, orders, salesOrders, purchaseOrders, catalog, users, now, reqs>>

\* PATCH /api/cart/items/:inventoryId sits behind validateId, which reads
\* the parameter id; the route has none
UpdateCartItemStatus(inv, cs, u, inventoryId, qty) ==
    IF ValidateId(InvalidId) # 0 THEN ValidateId(InvalidId)
    ELSE IF qty < 1 THEN 400
    ELSE IF ~Exists(inv, inventoryId) THEN 404
    ELSE IF ~inv[inventoryId].isActive THEN 400
    ELSE IF inv[inventoryId].stock < qty THEN 400
    ELSE IF FindCart(cs, u) = 0 THEN 404
    ELSE IF FindLine(cs[FindCart(cs, u)].items, inventoryId) = 0 THEN 404
    ELSE 0

UpdateCartItem(u, inventoryId, qty) ==
    LET st == UpdateCartItemStatus(inventory, carts, u, inventoryId, qty)
        c == FindCart(carts, u)
    IN
    /\ IF st # 0
       THEN /\ carts' = carts
            /\ last' = Resp("updateCartItem", st, u, qty)
       ELSE LET items == [carts[c].items EXCEPT
                             ![FindLine(carts[c].items, inventoryId)].qty = qty] IN
            /\ \E t \in CalculateCartTotal(inventory, items) :
                 carts' = [carts EXCEPT ![c].items = items, ![c].totalAmount = t]
            /\ last' = Resp("updateCartItem", 200, u, qty)
    /\ snap' = NoSnap
    /\ UNCHANGED <<inventory, orders, salesOrders, purchaseOrders, catalog, users, now, reqs>>

\* cart.items.splice(itemIndex, 1)
Splice(items, k) == SubSeq(items, 1, k - 1) \o SubSeq(items, k + 1, Len(items))

\* DELETE /api/cart/items/:inventoryId, behind validateId as well
RemoveFromCartStatus(cs, u, inventoryId) ==
    IF ValidateId(InvalidId) # 0 THEN ValidateId(InvalidId)
    ELSE IF FindCart(cs, u) = 0 THEN 404
    ELSE IF FindLine(cs[FindCart(cs, u)].items, inventoryId) = 0 THEN 404
    ELSE 0

RemoveFromCart(u, inventoryId) ==
    LET st == RemoveFromCartStatus(carts, u, inventoryId)
        c == FindCart(carts, u)
    IN
    /\ IF st # 0
       THEN /\ carts' = carts
            /\ last' = Resp("removeFromCart", st, u, 0)
       ELSE LET items == Splice(carts[c].items, FindLine(carts[c].items, inventoryId)) IN
            /\ \E t \in CalculateCartTotal(inventory, items) :
                 carts' = [carts EXCEPT ![c].items = items, ![c].totalAmount = t]
            /\ last' = Resp("removeFromCart", 200, u, 0)
    /\ snap' = NoSnap
    /\ UNCHANGED <<inventory, orders, salesOrders, purchaseOrders, catalog, users, now, reqs>>

ClearCart(u) ==
    LET c == FindCart(carts, u) IN
    /\ IF c = 0
       THEN /\ carts' = carts
            /\ last' = Resp("clearCart", 404, u, 0)
       ELSE /\ carts' = [carts EXCEPT ![c].items = <<>>, ![c].totalAmount = 0]
            /\ last' = Resp("clearCart", 200, u, 0)
    /\ snap' = NoSnap
    /\ UNCHANGED <<inventory, orders, salesOrders, purchaseOrders, catalog, users, now, reqs>>

\* another user's cart is stored already
InitCart ==
    /\ inventory = [i \in InvIds |-> LiveDoc(i, i, MaxStock)]
    /\ catalog = FullCatalog
    /\ carts = <<[userId |-> "u2", items |-> <<CartLine(1, 1)>>, totalAmount |-> 10]>>
    /\ users = [u \in Users |-> LoggedOut]
    /\ now = 0
    /\ orders = <<>>
    /\ salesOrders = <<>>
    /\ purchaseOrders = <<>>
    /\ reqs = <<>>
    /\ last = Resp("none", 0, 0, 0)
    /\ snap = NoSnap

\* the cart routes, with the inventory routes that change a price or remove
\* a record a line refers to
NextCart ==
    \/ \E u \in CartUsers : GetCart(u)
    \/ \E u \in CartUsers, i \in InvIds, q \in 0 .. MaxQty : AddToCart(u, i, q)
    \/ \E u \in CartUsers,
          items \in {<<CartLine(i, q)>> : i \in InvIds, q \in {1, MaxQty}}
              \cup {<<CartLine(1, 1), CartLine(j, q)>> : j \in InvIds, q \in {1, MaxQty}} :
           BulkAddToCart(u, items)
    \/ \E u \in CartUsers, i \in InvIds, q \in 0 .. MaxQty : UpdateCartItem(u, i, q)
    \/ \E u \in CartUsers, i \in InvIds : RemoveFromCart(u, i)
    \/ \E u \in CartUsers : ClearCart(u)
    \/ \E id \in InvIds, p \in Prices :
           UpdateInventory(id, [item |-> 0, size |-> 0, color |-> 0,
                                hasStock |-> FALSE, stock |-> 0, price |-> p])
    \/ \E id \in InvIds : DeleteInventory(id)

SpecCart == InitCart /\ [][NextCart]_vars

CartMutations == {"addToCart", "bulkAddToCart", "updateCartItem", "removeFromCart",
                  "clearCart"}

\* the value of a cart's lines at the prices stored in inv, a line whose
\* inventory is gone counting 0
LinesValue(inv, items) ==
    LET value[k \in 0 .. Len(items)] ==
            IF k = 0 THEN 0
            ELSE value[k - 1]
                 + (IF inv[items[k].inventoryId].doc = "live"
                    THEN inv[items[k].inventoryId].price * items[k].qty ELSE 0)
    IN value[Len(items)]

\* t is s rounded to 2 decimals
IsRounded2(t, s) == t % 10 = 0 /\ t - s \in -5 .. 5

\* C15: after every successful cart mutation the stored totalAmount of the
\* user's cart is the sum over its lines of current price x qty, rounded to
\* 2 decimals, lines whose inventory is gone contributing 0.
C15_TotalIsRecomputed ==
    [][(last'.op \in CartMutations /\ last'.status = 200)
         => LET cart == carts'[FindCart(carts', last'.id)] IN
            IsRounded2(cart.totalAmount, LinesValue(inventory', cart.items))]_vars

\* an add to a cart that holds a line whose inventory was deleted and a line
\* whose price was changed since it was added
C15_Witness ==
    /\ last.op = "addToCart"
    /\ last.status = 200
    /\ LET cart == carts[FindCart(carts, last.id)] IN
       /\ Len(cart.items) = 2
       /\ \E k \in DOMAIN cart.items : ~Exists(inventory, cart.items[k].inventoryId)
       /\ \E k \in DOMAIN cart.items :
             /\ Exists(inventory, cart.items[k].inventoryId)
             /\ inventory[cart.items[k].inventoryId].price = 12
       /\ cart.totalAmount > 0

----------------------------------------------------------------------------
(* getCart, addToCart and bulkAddToCart step by step, one database call per *)
(* step: the cart is looked up in one step and inserted in a later one      *)

IdleCart == [pc |-> "idle", op |-> "", u |-> "", add |-> <<>>, seen |-> <<>>,
             c |-> 0, items |-> <<>>, total |-> 0]

\* CartModel.findOne({ userId }) of getCart
FindCartToGet(p, u) ==
    /\ reqs[p].pc = "idle"
    /\ IF FindCart(carts, u) # 0
       THEN /\ reqs' = [reqs EXCEPT ![p] = [IdleCart EXCEPT !.pc = "done",
                           !.op = "getCart", !.u = u, !.c = FindCart(carts, u)]]
            /\ last' = Resp("getCart", 200, u, 0)
       ELSE /\ reqs' = [reqs EXCEPT ![p] = [IdleCart EXCEPT !.pc = "create",
                           !.op = "getCart", !.u = u]]
            /\ last' = last
    /\ UNCHANGED <<inventory, orders, salesOrders, purchaseOrders, catalog, carts, users, now, snap>>

\* CartModel.create({ userId, items: [], totalAmount: 0 }) of getCart
CreateCart(p) ==
    LET r == reqs[p] IN
    /\ r.pc = "create"
    /\ carts' = Append(carts, NewCart(r.u))
    /\ reqs' = [reqs EXCEPT ![p] = [r EXCEPT !.pc = "done", !.c = Len(carts) + 1]]
    /\ last' = Resp("getCart", 200, r.u, 0)
    /\ UNCHANGED <<inventory, orders, salesOrders, purchaseOrders, catalog, users, now, snap>>

\* addToCart up to and with InventoryModel.findById
AddToCartEntryStatus(inv, inventoryId, qty) ==
    IF inventoryId = InvalidId \/ qty = 0 THEN 400
    ELSE IF qty < 1 THEN 400
    ELSE IF ~Exists(inv, inventoryId) THEN 404
    ELSE IF ~inv[inventoryId].isActive THEN 400
    ELSE IF inv[inventoryId].stock < qty THEN 400
    ELSE 0

CheckInventoryToAdd(p, u, inventoryId, qty) ==
    LET st == AddToCartEntryStatus(inventory, inventoryId, qty) IN
    /\ reqs[p].pc = "idle"
    /\ IF st # 0
       THEN /\ reqs' = [reqs EXCEPT ![p] = [IdleCart EXCEPT !.pc = "done",
                           !.op = "addToCart", !.u = u]]
            /\ last' = Resp("addToCart", st, u, qty)
       ELSE /\ reqs' = [reqs EXCEPT ![p] = [IdleCart EXCEPT !.pc = "cart",
                           !.op = "addToCart", !.u = u,
                           !.add = <<CartLine(inventoryId, qty)>>,
                           !.seen = inventory]]
            /\ last' = last
    /\ UNCHANGED <<inventory, orders, salesOrders, purchaseOrders, catalog, carts, users, now, snap>>

\* bulkAddToCart up to and with the Promise.all of InventoryModel.findById
BulkAddToCartEntryStatus(inv, items) ==
    IF items = <<>> THEN 400
    ELSE IF \E i \in DOMAIN items : items[i].inventoryId = InvalidId \/ items[i].qty = 0
    THEN 400
    ELSE IF \E i \in DOMAIN items : items[i].qty < 1 THEN 400
    ELSE BulkCheckStatus(inv, items, 1)

CheckInventoryToBulkAdd(p, u, items) ==
    LET st == BulkAddToCartEntryStatus(inventory, items) IN
    /\ reqs[p].pc = "idle"
    /\ IF st # 0
       THEN /\ reqs' = [reqs EXCEPT ![p] = [IdleCart EXCEPT !.pc = "done",
                           !.op = "bulkAddToCart", !.u = u]]
            /\ last' = Resp("bulkAddToCart", st, u, Len(items))
       ELSE /\ reqs' = [reqs EXCEPT ![p] = [IdleCart EXCEPT !.pc = "cart",
                           !.op = "bulkAddToCart", !.u = u, !.add = items,
                           !.seen = inventory]]
            /\ last' = last
    /\ UNCHANGED <<inventory, orders, salesOrders, purchaseOrders, catalog, carts, users, now, snap>>

\* CartModel.findOne({ userId }), new CartModel(...) if there is none, and
\* the merge of the lines into the copy
FindCartToAdd(p) ==
    LET r == reqs[p]
        c == FindCart(carts, r.u)
        lines == IF c = 0 THEN <<>> ELSE carts[c].items
        st == BulkMergeStatus(r.seen, lines, r.add, 1)
    IN
    /\ r.pc = "cart"
    /\ IF st # 0
       THEN /\ reqs' = [reqs EXCEPT ![p] = [r EXCEPT !.pc = "done"]]
            /\ last' = Resp(r.op, st, r.u, Len(r.add))
       ELSE /\ reqs' = [reqs EXCEPT ![p] = [r EXCEPT !.pc = "total", !.c = c,
                           !.items = BulkMerge(lines, r.add, 1)]]
            /\ last' = last
    /\ UNCHANGED <<inventory, orders, salesOrders, purchaseOrders, catalog, carts, users, now, snap>>

\* cart.totalAmount = await this.calculateCartTotal(cart.items)
TotalCart(p) ==
    LET r == reqs[p] IN
    /\ r.pc = "total"
    /\ \E t \in CalculateCartTotal(inventory, r.items) :
         reqs' = [reqs EXCEPT ![p] = [r EXCEPT !.pc = "save", !.total = t]]
    /\ UNCHANGED <<inventory, orders, salesOrders, purchaseOrders, catalog, carts, users, now, last, snap>>

\* await cart.save(): the copy made by new CartModel is inserted, the copy
\* of a stored document is written back
SaveCartDoc(p) ==
    LET r == reqs[p] IN
    /\ r.pc = "save"
    /\ carts' = SaveCart(carts, r.c,
                    [userId |-> r.u, items |-> r.items, totalAmount |-> r.total])
    /\ reqs' = [reqs EXCEPT ![p] = [r EXCEPT !.pc = "done"]]
    /\ last' = Resp(r.op, 200, r.u, Len(r.add))
    /\ UNCHANGED <<inventory, orders, salesOrders, purchaseOrders, catalog, users, now, snap>>

InitCartRace ==
    /\ inventory = [i \in InvIds |-> LiveDoc(i, i, MaxStock)]
    /\ catalog = FullCatalog
    /\ carts = <<>>
    /\ users = [u \in Users |-> LoggedOut]
    /\ now = 0
    /\ orders = <<>>
    /\ salesOrders = <<>>
    /\ purchaseOrders = <<>>
    /\ reqs = [p \in Procs |-> IdleCart]
    /\ last = Resp("none", 0, 0, 0)
    /\ snap = NoSnap

NextCartRace ==
    \/ \E p \in Procs, u \in {"u1", "u2"} : FindCartToGet(p, u)
    \/ \E p \in Procs : CreateCart(p)
    \/ \E p \in Procs, u \in {"u1", "u2"}, i \in InvIds, q \in {1, MaxQty} :
           CheckInventoryToAdd(p, u, i, q)
    \/ \E p \in Procs, u \in {"u1", "u2"},
          items \in {<<CartLine(1, 1)>>, <<CartLine(1, 1), CartLine(2, MaxQty)>>} :
           CheckInventoryToBulkAdd(p, u, items)
    \/ \E p \in Procs : FindCartToAdd(p)
    \/ \E p \in Procs : TotalCart(p)
    \/ \E p \in Procs : SaveCartDoc(p)

SpecCartRace == InitCartRace /\ [][NextCartRace]_vars

CartsOf(cs, u) == {i \in DOMAIN cs : cs[i].userId = u}

\* C16: each user has at most one cart document in every reachable state,
\* also when getCart, addToCart and bulkAddToCart of one user interleave
\* while the user has no cart.
C16_OneCartPerUser ==
    \A u \in {"u1", "u2"} : Cardinality(CartsOf(carts, u)) <= 1

----------------------------------------------------------------------------
(* Authentication: register, login, refresh and logout.  The clock counts   *)
(* seconds; a refresh token is its signed payload, so two tokens signed for *)
(* one user in one second are the same token                                *)

MaxTime == 2         \* the clock stops here
RefreshLife == 2     \* life of a refresh token (7 days), scaled to the clock

AuthUsers == {"u1", "u2"}

\* jwt.sign({ id, type: 'refresh' }, refreshSecret, { expiresIn })
GenerateRefreshToken(id, t) == [id |-> id, iat |-> t, exp |-> t + RefreshLife]

NoIssue == [kind |-> "auth", issued |-> {}, used |-> {}, revoked |-> {}]

\* the tokens the responses have handed out, and those of them a logout has
\* revoked with no login or registration of their user since
Issue(s, tok) ==
    [s EXCEPT !.issued = @ \cup {tok},
              !.revoked = {r \in @ : r.id # tok.id}]

Revoke(s, u) == [s EXCEPT !.revoked = @ \cup {r \in s.issued : r.id = u}]

Register(u) ==
    /\ IF users[u].doc = "live"
       THEN /\ users' = users
            /\ last' = Resp("register", 400, u, 0)
            /\ snap' = snap
       ELSE LET tok == GenerateRefreshToken(u, now) IN
            /\ users' = [users EXCEPT ![u] =
                   [doc |-> "live", isActive |-> TRUE, refreshToken |-> tok,
                    refreshTokenExpiry |-> now + RefreshLife]]
            /\ last' = Resp("register", 201, u, 0)
            /\ snap' = Issue(snap, tok)
    /\ UNCHANGED <<inventory, orders, salesOrders, purchaseOrders, catalog, carts, now, reqs>>

LoginStatus(us, u, passwordValid) ==
    IF us[u].doc # "live" THEN 401
    ELSE IF ~us[u].isActive THEN 403
    ELSE IF ~passwordValid THEN 401
    ELSE 0

Login(u, passwordValid) ==
    LET st == LoginStatus(users, u, passwordValid) IN
    /\ IF st # 0
       THEN /\ users' = users
            /\ last' = Resp("login", st, u, 0)
            /\ snap' = snap
       ELSE LET tok == GenerateRefreshToken(u, now) IN
            /\ users' = [users EXCEPT ![u].refreshToken = tok,
                                      ![u].refreshTokenExpiry = now + RefreshLife]
            /\ last' = Resp("login", 200, u, 0)
            /\ snap' = Issue(snap, tok)
    /\ UNCHANGED <<inventory, orders, salesOrders, purchaseOrders, catalog, carts, now, reqs>>

\* POST /api/auth/refresh with body { refreshToken: tok } at time t
RefreshTokenStatus(us, t, tok) ==
    IF tok = NoToken THEN 400
    ELSE IF t >= tok.exp THEN 401
    ELSE IF us[tok.id].doc # "live" THEN 404
    ELSE IF ~us[tok.id].isActive THEN 403
    ELSE IF us[tok.id].refreshToken # tok THEN 401
    ELSE IF us[tok.id].refreshTokenExpiry < t THEN 401
    ELSE 200

RefreshToken(tok) ==
    LET st == RefreshTokenStatus(users, now, tok) IN
    /\ last' = Resp("refresh", st, tok.id, tok)
    /\ snap' = IF st = 200 THEN [snap EXCEPT !.used = @ \cup {tok}] ELSE snap
    /\ UNCHANGED <<inventory, orders, salesOrders, purchaseOrders, catalog, carts, users, now, reqs>>

ClearedKept(acc) == acc

\* User.findByIdAndUpdate(id, { refreshToken: null, refreshTokenExpiry: null })
Cleared(acc) == [acc EXCEPT !.refreshToken = NoToken, !.refreshTokenExpiry = 0]

\* POST /api/auth/logout with the access token of bearer, NoUser for none
LogoutStatus(us, bearer) ==
    IF bearer = NoUser THEN 401
    ELSE IF us[bearer].doc # "live" THEN 404
    ELSE IF ~us[bearer].isActive THEN 403
    ELSE 0

Logout(bearer) ==
    LET st == LogoutStatus(users, bearer) IN
    /\ IF st # 0
       THEN /\ users' = users
            /\ last' = Resp("logout", st, bearer, 0)
            /\ snap' = snap
       ELSE /\ users' = [users EXCEPT ![bearer] = Cleared(@)]
            /\ last' = Resp("logout", 200, bearer, 0)
            /\ snap' = Revoke(snap, bearer)
    /\ UNCHANGED <<inventory, orders, salesOrders, purchaseOrders, catalog, carts, now, reqs>>

Tick ==
    /\ now < MaxTime
    /\ now' = now + 1
    /\ UNCHANGED <<inventory, orders, salesOrders, purchaseOrders, catalog, carts, users, reqs, last, snap>>

InitAuth ==
    /\ inventory = [i \in InvIds |-> NoDoc]
    /\ catalog = FullCatalog
    /\ carts = <<>>
    /\ users = [u \in Users |-> NoAccount]
    /\ now = 0
    /\ orders = <<>>
    /\ salesOrders = <<>>
    /\ purchaseOrders = <<>>
    /\ reqs = <<>>
    /\ last = Resp("none", 0, 0, 0)
    /\ snap = NoIssue

NextAuth ==
    \/ \E u \in AuthUsers : Register(u)
    \/ \E u \in AuthUsers, passwordValid \in BOOLEAN : Login(u, passwordValid)
    \/ \E tok \in snap.issued \cup {NoToken} : RefreshToken(tok)
    \/ \E bearer \in AuthUsers \cup {NoUser} : Logout(bearer)
    \/ Tick

SpecAuth == InitAuth /\ [][NextAuth]_vars

\* C17: POST /api/auth/refresh accepts a token only while it is the token
\* stored for its user, and answers 401 to every token handed out before a
\* successful logout of its user, until that user logs in or registers again.
C17_RefreshOnlyStoredToken ==
    [][last'.op = "refresh"
         => /\ last'.status = 200 => users[last'.id].refreshToken = last'.qty
            /\ last'.qty \in snap.revoked => last'.status = 401]_vars

C17_Witness ==
    /\ last.op = "refresh"
    /\ last.status = 401
    /\ last.qty \in snap.revoked
    /\ now < last.qty.exp

\* C18: once POST /api/auth/refresh has succeeded with a refresh token, a
\* later refresh presenting the same token is rejected.
C18_RefreshTokenOneTime ==
    [][(last'.op = "refresh" /\ last'.qty \in snap.used) => last'.status # 200]_vars

----------------------------------------------------------------------------
(* The list endpoints and their pagination.  A request carries page and     *)
(* limit as integers, 0 standing for a value parseInt()|| replaces          *)

MaxDocs == 3         \* most documents a collection starts with
MaxLimit == 100
DefaultLimit == 10

NoPagination == [page |-> 0, limit |-> 0, total |-> 0, totalPages |-> 0]

CeilDivFloor(a, b) == a \div b

\* Math.ceil(total / limit) for total >= 0 and limit >= 1
CeilDiv(a, b) == (a + b - 1) \div b

Pagination(page, limit, total) ==
    [page |-> page, limit |-> limit, total |-> total,
     totalPages |-> CeilDiv(total, limit)]

\* validateQuery of the inventory and the order routes
ValidateQuery(page, limit) ==
    IF page < 1 THEN 400
    ELSE IF limit < 1 \/ limit > MaxLimit THEN 400
    ELSE 0

Listed(op, st, u, page, limit, filter, pagination) ==
    Resp(op, st, u, [page |-> page, limit |-> limit, filter |-> filter,
                     pagination |-> pagination])

\* parseInt(x) || d
OrDefault(x, d) == IF x = 0 THEN d ELSE x

\* GET /api/inventory without search: countDocuments({})
GetAllInventory(page, limit) ==
    LET total == Cardinality({i \in DOMAIN inventory : Exists(inventory, i)}) IN
    /\ last' = IF ValidateQuery(page, limit) # 0
               THEN Listed("getAllInventory", ValidateQuery(page, limit), NoUser,
                           page, limit, "", NoPagination)
               ELSE Listed("getAllInventory", 200, NoUser, page, limit, "",
                           Pagination(page, limit, total))
    /\ UNCHANGED <<inventory, orders, salesOrders, purchaseOrders, catalog, carts, users, now, reqs, snap>>

\* the query of getAllOrders: the user's orders unless admin, of the status
\* named, "" for none
OrderQuery(ords, u, status) ==
    {k \in DOMAIN ords : /\ Role(u) # "admin" => ords[k].userId = u
                         /\ status # "" => ords[k].status = status}

GetAllOrders(u, page, limit, status) ==
    LET pageNum == IF page > 1 THEN page ELSE 1
        limitNum == IF limit < 1 THEN 1 ELSE IF limit > MaxLimit THEN MaxLimit ELSE limit
        total == Cardinality(OrderQuery(orders, u, status))
    IN
    /\ last' = IF ValidateQuery(page, limit) # 0
               THEN Listed("getAllOrders", ValidateQuery(page, limit), u,
                           page, limit, status, NoPagination)
               ELSE Listed("getAllOrders", 200, u, page, limit, status,
                           Pagination(pageNum, limitNum, total))
    /\ UNCHANGED <<inventory, orders, salesOrders, purchaseOrders, catalog, carts, users, now, reqs, snap>>

\* the query of getSalesOrders: { userId } and the customer named, "" for none
SalesOrderQuery(sos, u, customerId) ==
    {k \in DOMAIN sos : /\ sos[k].doc = "live"
                        /\ sos[k].userId = u
                        /\ customerId # "" => sos[k].customerId = customerId}

GetSalesOrders(u, page, limit, customerId) ==
    LET total == Cardinality(SalesOrderQuery(salesOrders, u, customerId)) IN
    /\ last' = Listed("getSalesOrders", 200, u, page, limit, customerId,
                      Pagination(OrDefault(page, 1), OrDefault(limit, DefaultLimit),
                                 total))
    /\ UNCHANGED <<inventory, orders, salesOrders, purchaseOrders, catalog, carts, users, now, reqs, snap>>

PurchaseOrderQuery(pos, u) ==
    {k \in DOMAIN pos : pos[k].doc = "live" /\ pos[k].userId = u}

GetPurchaseOrders(u, page, limit) ==
    LET total == Cardinality(PurchaseOrderQuery(purchaseOrders, u)) IN
    /\ last' = Listed("getPurchaseOrders", 200, u, page, limit, "",
                      Pagination(OrDefault(page, 1), OrDefault(limit, DefaultLimit),
                                 total))
    /\ UNCHANGED <<inventory, orders, salesOrders, purchaseOrders, catalog, carts, users, now, reqs, snap>>

\* GET /api/customers without search and isActive: countDocuments({})
GetAllCustomers(page, limit) ==
    LET total == Cardinality(Customers) IN
    /\ last' = Listed("getAllCustomers", 200, NoUser, page, limit, "",
                      Pagination(OrDefault(page, 1), OrDefault(limit, DefaultLimit),
                                 total))
    /\ UNCHANGED <<inventory, orders, salesOrders, purchaseOrders, catalog, carts, users, now, reqs, snap>>

\* the k-th stored document belongs to u1 when k is odd, to u2 otherwise
Owner(k) == IF k % 2 = 1 THEN "u1" ELSE "u2"

InitList ==
    /\ \E n \in 0 .. Cardinality(InvIds) :
         inventory = [i \in InvIds |-> IF i <= n THEN LiveDoc(i, i, MaxStock) ELSE NoDoc]
    /\ \E n \in 0 .. MaxDocs :
         orders = [k \in 1 .. n |->
                     [NewOrder(inventory, Owner(k), <<>>, 0) EXCEPT
                         !.status = IF k = 1 THEN "cancelled" ELSE "pending"]]
    /\ \E n \in 0 .. MaxDocs :
         salesOrders = [k \in 1 .. n |->
                          IF k = 2 THEN GoneDoc
                          ELSE [doc |-> "live", userId |-> "u1", customerId |-> "c1",
                                items |-> <<>>, totalAmount |-> 0,
                                totalDiscount |-> 0]]
    /\ \E n \in 0 .. 1 :
         purchaseOrders = [k \in 1 .. n |-> NewPurchaseOrder(Owner(k), "s1", <<>>, 0)]
    /\ catalog = FullCatalog
    /\ carts = <<>>
    /\ users = [u \in Users |-> LoggedOut]
    /\ now = 0
    /\ reqs = <<>>
    /\ last = Resp("none", 0, 0, 0)
    /\ snap = NoSnap

Pages == {0, 1, 2}
Limits == {0, 1, 2, MaxLimit, MaxLimit + 1}

NextList ==
    \/ \E page \in Pages, limit \in Limits : GetAllInventory(page, limit)
    \/ \E u \in Users, page \in Pages, limit \in Limits, status \in {"", "pending"} :
           GetAllOrders(u, page, limit, status)
    \/ \E u \in {"u1", "u2"}, page \in Pages, limit \in Limits, c \in {"", "c1"} :
           GetSalesOrders(u, page, limit, c)
    \/ \E u \in {"u1", "u2"}, page \in Pages, limit \in Limits :
           GetPurchaseOrders(u, page, limit)
    \/ \E page \in Pages, limit \in Limits : GetAllCustomers(page, limit)

SpecList == InitList /\ [][NextList]_vars

ListOps == {"getAllInventory", "getAllOrders", "getSalesOrders", "getPurchaseOrders",
            "getAllCustomers"}

\* the stored records the request answered last asks for
Matching ==
    IF last.op = "getAllInventory"
    THEN Cardinality({i \in InvIds : inventory[i].doc = "live"})
    ELSE IF last.op = "getAllOrders"
    THEN Cardinality({k \in 1 .. Len(orders) :
             /\ last.id = "admin" \/ orders[k].userId = last.id
             /\ last.qty.filter = "" \/ orders[k].status = last.qty.filter})
    ELSE IF last.op = "getSalesOrders"
    THEN Cardinality({k \in 1 .. Len(salesOrders) :
             /\ salesOrders[k].doc = "live" /\ salesOrders[k].userId = last.id
             /\ last.qty.filter = "" \/ salesOrders[k].customerId = last.qty.filter})
    ELSE IF last.op = "getPurchaseOrders"
    THEN Cardinality({k \in 1 .. Len(purchaseOrders) :
             purchaseOrders[k].doc = "live" /\ purchaseOrders[k].userId = last.id})
    ELSE Cardinality(Customers)

\* tp is ceil(total / limit)
IsCeil(tp, total, limit) == tp * limit >= total /\ (tp - 1) * limit < total

\* the response carries the count of the matching records and the pages it
\* makes at the limit of the request
PaginationRight ==
    /\ last.status = 200
    /\ last.qty.pagination.total = Matching
    /\ IsCeil(last.qty.pagination.totalPages, Matching, last.qty.limit)

\* C19 as stated: every list request with page >= 1 and limit >= 1 is
\* answered with total = the number of stored records matching its filter
\* and totalPages = ceil(total / limit).
C19_PaginationAnyLimit ==
    (last.op \in ListOps /\ last.qty.page >= 1 /\ last.qty.limit >= 1)
        => PaginationRight

\* C19: every list request with page >= 1 and limit >= 1 is answered with
\* total = the number of stored records matching its filter and totalPages =
\* ceil(total / limit), except that the inventory and the order list reject a
\* limit above 100 with 400.
C19_PaginationUpToMaxLimit ==
    (last.op \in ListOps /\ last.qty.page >= 1 /\ last.qty.limit >= 1)
        => IF last.op \in {"getAllInventory", "getAllOrders"}
              /\ last.qty.limit > MaxLimit
           THEN last.status = 400
           ELSE PaginationRight

\* a page of orders that leaves a remainder
C19_Witness ==
    /\ last.op = "getAllOrders"
    /\ last.status = 200
    /\ last.qty.limit = 2
    /\ last.qty.pagination.total > 2
    /\ last.qty.pagination.total % 2 = 1

----------------------------------------------------------------------------
(* Errors: AppError, asyncHandler and the global errorHandler.  An error is *)
(* [app, name, message, statusCode]: app tells an AppError from any other   *)
(* Error                                                                    *)

AppError(message, statusCode) ==
    [app |-> TRUE, name |-> "Error", message |-> message, statusCode |-> statusCode]

OtherError(name, message) ==
    [app |-> FALSE, name |-> name, message |-> message, statusCode |-> 0]

NoError == OtherError("", "")

Includes(message, part) ==
    \/ message = part
    \/ part = "Invalid file type" /\ message = "Invalid file type: text/plain"

\* errorHandler: the status and the body of the answer to err
ErrorHandler(err) ==
    IF err.app
    THEN [success |-> FALSE, message |-> err.message, error |-> err.message,
          statusCode |-> err.statusCode]
    ELSE IF err.name = "MulterError"
    THEN [success |-> FALSE, message |-> "File Upload Error",
          error |-> IF Includes(err.message, "File too large")
                    THEN "File size exceeds the maximum allowed limit"
                    ELSE IF Includes(err.message, "Too many files")
                    THEN "Too many files uploaded"
                    ELSE IF Includes(err.message, "Unexpected field")
                    THEN "Unexpected field in form data"
                    ELSE err.message,
          statusCode |-> 400]
    ELSE IF Includes(err.message, "Invalid file type")
    THEN [success |-> FALSE, message |-> "Invalid File Type", error |-> err.message,
          statusCode |-> 400]
    ELSE [success |-> FALSE, message |-> "Internal Server Error",
          error |-> err.message, statusCode |-> 500]

\* what a request was answered after err was thrown inside its handler first
Thrown(err) == [kind |-> "thrown", id |-> 0, stock |-> <<>>, err |-> err]

\* Promise.resolve(fn(req, res, next)).catch(next): the error that leaves the
\* handler goes to errorHandler
Answer(op, err) ==
    Resp(op, ErrorHandler(err).statusCode, 0, ErrorHandler(err))

StatusCodes == {400, 401, 403, 404, 422, 500, 503}
Messages == {"Order not found", "Cart not found", "File too large", "Too many files",
             "Unexpected field", "Invalid file type: text/plain", "connection lost",
             "Cast to ObjectId failed"}
ErrorNames == {"Error", "MulterError", "CastError", "ValidationError", "TypeError",
               "MongoServerError"}
Errors ==
    {AppError(m, sc) : m \in Messages, sc \in StatusCodes}
        \cup {OtherError(n, m) : n \in ErrorNames, m \in Messages}

\* a handler with no try block of its own throws err, or awaits a promise
\* rejected with it
ThrowInHandler(err) ==
    /\ last' = Answer("handler", err)
    /\ snap' = Thrown(err)
    /\ UNCHANGED <<inventory, orders, salesOrders, purchaseOrders, catalog, carts, users, now, reqs>>

\* POST /api/cashfree/webhook: the body is complete or not; the order is
\* found or not; Order.findByIdAndUpdate rejects with dbError or resolves
HandlePaymentCallback(complete, found, dbError) ==
    /\ IF ~complete
       THEN LET err == AppError("orderId, orderAmount, and paymentStatus are required", 400)
            IN /\ last' = Answer("handlePaymentCallback", err)
               /\ snap' = Thrown(err)
       ELSE IF dbError # NoError
       THEN /\ last' = Answer("handlePaymentCallback",
                              AppError("Failed to process payment callback", 400))
            /\ snap' = Thrown(dbError)
       ELSE IF ~found
       THEN /\ last' = Answer("handlePaymentCallback",
                              AppError("Failed to process payment callback", 400))
            /\ snap' = Thrown(AppError("Order not found", 404))
       ELSE /\ last' = Resp("handlePaymentCallback", 200, 0, [success |-> TRUE])
            /\ snap' = NoSnap
    /\ UNCHANGED <<inventory, orders, salesOrders, purchaseOrders, catalog, carts, users, now, reqs>>

\* GET /api/upload/files: cloudinary.api.resources rejects with err or resolves
GetFiles(err) ==
    /\ last' = Resp("getFiles", 200, 0, [success |-> TRUE])
    /\ snap' = IF err # NoError THEN Thrown(err) ELSE NoSnap
    /\ UNCHANGED <<inventory, orders, salesOrders, purchaseOrders, catalog, carts, users, now, reqs>>

InitErrors ==
    /\ inventory = [i \in InvIds |-> NoDoc]
    /\ InitRest

NextErrors ==
    \/ \E err \in Errors : ThrowInHandler(err)
    \/ \E complete \in BOOLEAN, found \in BOOLEAN,
          dbError \in {NoError, OtherError("CastError", "connection lost")} :
           HandlePaymentCallback(complete, found, dbError)
    \/ \E err \in {NoError, OtherError("Error", "connection lost")} : GetFiles(err)

SpecErrors == InitErrors /\ [][NextErrors]_vars

\* C20: every AppError thrown inside an asyncHandler-wrapped handler is
\* answered with its statusCode and the body {success: false, message, error,
\* statusCode}; any other error is answered with status 500.
C20_OneErrorKindOnePlace ==
    snap.kind = "thrown"
        => IF snap.err.app
           THEN /\ last.status = snap.err.statusCode
                /\ last.qty = [success |-> FALSE, message |-> snap.err.message,
                               error |-> snap.err.message,
                               statusCode |-> snap.err.statusCode]
           ELSE last.status = 500

----------------------------------------------------------------------------
(* createOrder against the quantities an order asks of one inventory *)

----------------------------------------------------------------------------
(* The life of an order: created by its owner, then cancelled, moved from    *)
(* status to status by an admin, and its payment recorded                    *)

OrderStatuses ==
    {"pending", "confirmed", "processing", "shipped", "delivered", "cancelled",
     "returned"}

PaymentStatuses == {"pending", "paid", "failed", "refunded", "partially_refunded"}

\* validateUpdatePaymentStatus: param id isMongoId, body paymentStatus isIn
ValidateUpdatePaymentStatus(id, paymentStatus) ==
    IF id = InvalidId \/ paymentStatus \notin PaymentStatuses THEN 400 ELSE 0

UpdatePaymentStatusStatusAnyUser(ords, u, id, paymentStatus) ==
    IF ValidateUpdatePaymentStatus(id, paymentStatus) # 0 THEN 400
    ELSE IF id \notin DOMAIN ords THEN 404
    ELSE 0

UpdatePaymentStatusStatus(ords, u, id, paymentStatus) ==
    IF ValidateUpdatePaymentStatus(id, paymentStatus) # 0 THEN 400
    ELSE IF id \notin DOMAIN ords THEN 404
    ELSE IF ords[id].userId # u /\ Role(u) # "admin" THEN 403
    ELSE 0

\* PUT /api/orders/:id/payment
UpdatePaymentStatus(u, id, paymentStatus) ==
    LET st == UpdatePaymentStatusStatus(orders, u, id, paymentStatus) IN
    /\ IF st # 0
       THEN /\ orders' = orders
            /\ last' = Resp("updatePaymentStatus", st, id, 0)
       ELSE /\ orders' = [orders EXCEPT ![id].paymentStatus = paymentStatus]
            /\ last' = Resp("updatePaymentStatus", 200, id, 0)
    /\ snap' = NoSnap
    /\ UNCHANGED <<inventory, salesOrders, purchaseOrders, reqs, catalog, carts, users, now>>

InitOrderLife ==
    /\ inventory = [i \in InvIds |-> LiveDoc(i, 1, MaxStock)]
    /\ InitRest

NextOrderLife ==
    \/ \E items \in ItemLists(InvIds, {1}, MaxLines) :
           CreateOrder("u1", items, 0)
    \/ \E u \in Users, id \in OrderIds : CancelOrder(u, id)
    \/ \E u \in {"u2", "admin"}, id \in OrderIds, status \in OrderStatuses \cup {""} :
           UpdateOrderStatus(u, id, status)
    \/ \E u \in Users, id \in OrderIds \cup {InvalidId},
          paymentStatus \in {"paid", "unknown"} :
           UpdatePaymentStatus(u, id, paymentStatus)

SpecOrderLife == InitOrderLife /\ [][NextOrderLife]_vars

\* the user is neither the owner of the stored order nor an admin
Stranger(u, id) ==
    id \in DOMAIN orders /\ orders[id].userId # u /\ Role(u) # "admin"

\* C22: cancelOrder and updatePaymentStatus invoked by an authenticated user
\* who is neither the order's owner nor an admin are answered 403, and the
\* order (status, paymentStatus) and every inventory's stock are unchanged.
C22_OwnershipEnforced ==
    [][\A u \in Users, id \in OrderIds :
           (/\ Stranger(u, id)
            /\ \/ CancelOrder(u, id)
               \/ \E paymentStatus \in PaymentStatuses :
                      UpdatePaymentStatus(u, id, paymentStatus))
               => /\ last'.status = 403
                  /\ orders' = orders
                  /\ inventory' = inventory]_vars

C22_Witness ==
    /\ last.op = "cancelOrder" /\ last.status = 403
    /\ last.id \in DOMAIN orders
    /\ canCancel(orders[last.id].status)
    /\ orders[last.id].paymentStatus = "paid"

\* C24: over any sequence of cancelOrder and updateOrderStatus requests on an
\* order, the total quantity added back to an inventory on behalf of that
\* order never exceeds the quantity createOrder decremented for it. Here one
\* order is created, every inventory starts at MaxStock and only createOrder
\* and cancelOrder write stock, so the stock is MaxStock minus what createOrder
\* took plus what was added back, and the claim is that it never exceeds
\* MaxStock.
C24_RestoredAtMostOnce ==
    \A i \in InvIds : inventory[i].stock <= MaxStock

\* C27 as stated: cancelOrder on an order whose status is not 'pending' or
\* 'confirmed' is answered 400, whoever asks, and changes nothing.
C27_NotCancellableGets400 ==
    [][\A u \in Users, id \in OrderIds :
           (/\ id \in DOMAIN orders
            /\ orders[id].status \notin {"pending", "confirmed"}
            /\ CancelOrder(u, id))
               => /\ last'.status = 400
                  /\ orders' = orders
                  /\ inventory' = inventory]_vars

\* C27: cancelOrder is answered 200 only for an order whose status is
\* 'pending' or 'confirmed'; on an order in any other status it changes
\* neither the order (status, cancellation fields, paymentStatus) nor any
\* stock, and is answered 400 when the owner or an admin asks and 403 when
\* another user does.
C27_OnlyPendingOrConfirmedCancelled ==
    [][\A u \in Users, id \in OrderIds :
           (id \in DOMAIN orders /\ CancelOrder(u, id))
               => /\ last'.status = 200 => orders[id].status \in {"pending", "confirmed"}
                  /\ orders[id].status \notin {"pending", "confirmed"}
                         => /\ last'.status = IF Stranger(u, id) THEN 403 ELSE 400
                            /\ orders' = orders
                            /\ inventory' = inventory]_vars

C27_Witness ==
    /\ last.op = "cancelOrder" /\ last.status = 400
    /\ last.id \in DOMAIN orders
    /\ orders[last.id].status = "shipped"
    /\ orders[last.id].paymentStatus = "paid"
    /\ orders[last.id].cancellationReason = ""

----------------------------------------------------------------------------
(* createOrder with requests that fail each of its checks *)

UnknownUser == "ghost"     \* an id User.findById finds nothing for

InitCreate ==
    /\ \E s1 \in 0 .. MaxStock, s2 \in -1 .. MaxStock :
         inventory = [i \in InvIds |->
                         IF i = 1 THEN LiveDoc(1, 1, s1)
                         ELSE IF s2 < 0 THEN NoDoc ELSE LiveDoc(2, 1, s2)]
    /\ InitRest

NextCreate ==
    \/ \E u \in {NoUser, UnknownUser} : CreateOrder(u, <<Line(1, 1)>>, 0)
    \/ \E items \in {<<>>} \cup ItemLists(InvIds \cup {InvalidId}, {0, MaxQty}, MaxLines),
          discount \in {-1, 0, 5 * MaxQty * MaxLines + 1} :
           CreateOrder("u1", items, discount)

SpecCreate == InitCreate /\ [][NextCreate]_vars

----------------------------------------------------------------------------
(* updateSalesOrder answered with an error *)

----------------------------------------------------------------------------
(* Two requests that give the stock of the same order back: cancelOrder and  *)
(* deleteSalesOrder step by step, on the order and the sales order InitLedger *)
(* starts with                                                               *)

NextRestore ==
    \/ \E p \in Procs, id \in DOMAIN orders : FindOrderToCancel(p, "u1", id)
    \/ \E p \in Procs : SaveCancelled(p)
    \/ \E p \in Procs : RestoreOrderLine(p)
    \/ \E p \in Procs, id \in DOMAIN salesOrders : FindSalesOrderToDelete(p, "u1", id)
    \/ \E p \in Procs : RestoreSalesLine(p)
    \/ \E p \in Procs : DeleteSalesDoc(p)

SpecRestore == InitLedger /\ [][NextRestore]_vars

\* the lines of the sales order the run starts with
InitialSalesItems == <<SLine(1, 1, 5)>>

\* what the cancelled order may have given back to inventory i
OrderDue(i) ==
    IF orders[1].status = "cancelled" THEN LineSum(orders[1].items, i) ELSE 0

\* what the sales order, once a delete of it has begun, may have given back
SalesDue(i) ==
    IF \/ \E p \in Procs : reqs[p].pc \in {"delete.inc", "delete.delete"}
       \/ ~Found(salesOrders, 1)
    THEN LineSum(InitialSalesItems, i) ELSE 0

\* C25: for any interleaving of two deleteSalesOrder requests for the same
\* sales order, and of two cancelOrder requests for the same order, each
\* line's quantity is added back to its inventory's stock exactly once: what
\* has been added to an inventory never exceeds the quantities of the lines
\* of the cancelled order and of the deleted sales order on it.
C25_RestoredExactlyOnce ==
    \A i \in InvIds : snap.applied[i] <= OrderDue(i) + SalesDue(i)

----------------------------------------------------------------------------
(* The order number: the pre-save hook of the Order model reads the newest   *)
(* order, adds one to its number, and the insert that follows meets the      *)
(* unique index on orderNo                                                   *)

\* `ORD${String(orderNumber).padStart(6, '0')}`: the prefix and the digits,
\* which padStart never shortens
FormatOrderNo(orderNumber) == <<"ORD", orderNumber>>

\* parseInt(lastOrder.orderNo.replace('ORD', ''))
ParseOrderNo(orderNo) == orderNo[2]

\* Order.findOne({}, { orderNo: 1 }, { sort: { _id: -1 } }) and the number
\* that follows it
NextOrderNumber(ords) ==
    IF Len(ords) = 0 THEN 1 ELSE ParseOrderNo(ords[Len(ords)].orderNo) + 1

\* the unique index on orderNo refuses a second document with the same value
DuplicateKey(ords, orderNo) == \E id \in DOMAIN ords : ords[id].orderNo = orderNo

\* newOrder.save(), first await: the pre-save hook reads the last order
GenerateOrderNo(p) ==
    LET r == reqs[p] IN
    /\ r.pc = "order.save"
    /\ reqs' = [reqs EXCEPT ![p] =
           [pc |-> "order.insert", u |-> r.u, items |-> r.items, k |-> r.k,
            id |-> r.id, orderNo |-> FormatOrderNo(NextOrderNumber(orders))]]
    /\ snap' = Keep(snap)
    /\ UNCHANGED <<inventory, orders, salesOrders, purchaseOrders, last, catalog,
                   carts, users, now>>

\* newOrder.save(), the insert: E11000 on a duplicate orderNo is no AppError
\* and is answered 500, with no order saved and no stock taken
InsertOrder(p) ==
    LET r == reqs[p] IN
    /\ r.pc = "order.insert"
    /\ IF DuplicateKey(orders, r.orderNo)
       THEN /\ orders' = orders
            /\ reqs' = [reqs EXCEPT ![p] = Done(@, "done")]
            /\ last' = Resp("createOrder", 500, 0, 0)
       ELSE /\ orders' = Append(orders,
                   [userId |-> r.u, items |-> r.items, status |-> "pending",
                    paymentStatus |-> "pending",
                    totalAmount |-> OrderTotal(inventory, r.items, 1),
                    discount |-> 0, cancellationReason |-> "",
                    orderNo |-> r.orderNo])
            /\ reqs' = [reqs EXCEPT ![p] =
                   [@ EXCEPT !.pc = "order.dec", !.id = Len(orders) + 1]]
            /\ last' = last
    /\ snap' = Keep(snap)
    /\ UNCHANGED <<inventory, salesOrders, purchaseOrders, catalog, carts, users, now>>

NextOrderNo ==
    \/ \E p \in Procs, items \in ItemLists(InvIds, {1}, 1) :
           StartCreateOrder(p, "u1", items)
    \/ \E p \in Procs : ValidateOrderLine(p)
    \/ \E p \in Procs : GenerateOrderNo(p)
    \/ \E p \in Procs : InsertOrder(p)
    \/ \E p \in Procs : DecOrderLine(p)

SpecOrderNo == InitRace /\ [][NextOrderNo]_vars

----------------------------------------------------------------------------
(* Deactivating an account: PATCH /api/users/:id/status, and the two places  *)
(* that read isActive on behalf of a token, protect and POST /api/auth/refresh *)

AccessLife == 1      \* life of an access token (15 minutes), scaled to the clock

\* jwt.sign({ id, email, role }, secret, { expiresIn }) at the time the
\* refresh token tok was generated with it
AccessTokenOf(tok) == [id |-> tok.id, iat |-> tok.iat, exp |-> tok.iat + AccessLife]

NoAsk == [kind |-> "auth", issued |-> {}, used |-> {}, revoked |-> {}, asked |-> {}]

\* the users the latest status request for them asked to deactivate
Ask(s, id, hasIsActive, isActive) ==
    [s EXCEPT !.asked = IF ~hasIsActive THEN @
                        ELSE IF isActive THEN @ \ {id} ELSE @ \cup {id}]

\* PATCH /api/users/:id/status behind validateId; a body without isActive
\* keeps the stored value
UpdateUserStatus(id, hasIsActive, isActive) ==
    /\ IF ValidateId(id) # 0
       THEN /\ users' = users
            /\ last' = Resp("updateUserStatus", 400, id, 0)
       ELSE IF users[id].doc # "live"
       THEN /\ users' = users
            /\ last' = Resp("updateUserStatus", 404, id, 0)
       ELSE /\ users' = [users EXCEPT ![id].isActive =
                            IF hasIsActive THEN isActive ELSE @]
            /\ last' = Resp("updateUserStatus", 200, id, 0)
    /\ snap' = Ask(snap, id, hasIsActive, isActive)
    /\ UNCHANGED <<inventory, orders, salesOrders, purchaseOrders, catalog, carts, now, reqs>>

\* protect with the access token tok at time t: 200 stands for next()
ProtectStatus(us, t, tok) ==
    IF tok = NoToken THEN 401
    ELSE IF t >= tok.exp THEN 401
    ELSE IF us[tok.id].doc # "live" THEN 404
    ELSE IF ~us[tok.id].isActive THEN 403
    ELSE 200

Protect(tok) ==
    /\ last' = Resp("protect", ProtectStatus(users, now, tok), tok.id, tok)
    /\ UNCHANGED <<inventory, orders, salesOrders, purchaseOrders, catalog, carts,
                   users, now, reqs, snap>>

InitAccess ==
    /\ inventory = [i \in InvIds |-> NoDoc]
    /\ catalog = FullCatalog
    /\ carts = <<>>
    /\ users = [u \in Users |-> NoAccount]
    /\ now = 0
    /\ orders = <<>>
    /\ salesOrders = <<>>
    /\ purchaseOrders = <<>>
    /\ reqs = <<>>
    /\ last = Resp("none", 0, 0, 0)
    /\ snap = NoAsk

NextAccess ==
    \/ \E u \in {"u1"} : Register(u)
    \/ \E u \in {"u1"}, passwordValid \in BOOLEAN : Login(u, passwordValid)
    \/ \E id \in {"u1"}, hasIsActive \in BOOLEAN, isActive \in BOOLEAN :
           UpdateUserStatus(id, hasIsActive, isActive)
    \/ \E tok \in {AccessTokenOf(t) : t \in snap.issued} \cup {NoToken} : Protect(tok)
    \/ \E tok \in snap.issued \cup {NoToken} : RefreshToken(tok)
    \/ Tick

SpecAccess == InitAccess /\ [][NextAccess]_vars

----------------------------------------------------------------------------
(* Purchase orders created and then updated *)

\* supplierId "" and items <<>> are absent
UpdatePurchaseOrderStatus(inv, pos, u, id, supplierId, items) ==
    IF ~FoundFor(pos, id, u) THEN 404
    ELSE IF supplierId # "" /\ supplierId \notin Suppliers THEN 404
    ELSE IF Len(items) > 0 THEN PurchaseItemsStatus(inv, items, 1)
    ELSE 0

\* PATCH /api/purchase-orders/:id
UpdatePurchaseOrder(u, id, supplierId, items) ==
    LET st == UpdatePurchaseOrderStatus(inventory, purchaseOrders, u, id,
                                        supplierId, items) IN
    /\ IF st # 0
       THEN /\ purchaseOrders' = purchaseOrders
            /\ last' = Resp("updatePurchaseOrder", st, id, 0)
       ELSE /\ purchaseOrders' = [purchaseOrders EXCEPT ![id] =
                   [@ EXCEPT !.supplierId = IF supplierId # "" THEN supplierId ELSE @,
                             !.items = IF Len(items) > 0 THEN items ELSE @,
                             !.totalAmount = IF Len(items) > 0
                                             THEN Subtotal(items, 1) ELSE @]]
            /\ last' = Resp("updatePurchaseOrder", 200, id, 0)
    /\ snap' = NoSnap
    /\ UNCHANGED <<inventory, orders, salesOrders, reqs, catalog, carts, users, now>>

NextPurchaseTotal ==
    \/ \E items \in SalesItemLists(InvIds, {1, MaxQty}, {5}, MaxLines),
          discount \in {0, 3, 5 * MaxQty * MaxLines + 1} :
           CreatePurchaseOrder("u1", "s1", items, discount)
    \/ \E u \in {"u1", "u2"}, id \in PurchaseOrderIds, supplierId \in {"", "s1", "s9"},
          items \in {<<>>} \cup SalesItemLists(InvIds, {0, MaxQty}, {5}, 1) :
           UpdatePurchaseOrder(u, id, supplierId, items)

SpecPurchaseTotal == InitOrder /\ [][NextPurchaseTotal]_vars

\* C30: for every purchase order, in every state reached by
\* createPurchaseOrder and updatePurchaseOrder requests, the stored
\* totalAmount equals max(0, (sum over its items of qty x price) - discount).
C30_PurchaseTotalNetOfDiscount ==
    \A id \in DOMAIN purchaseOrders :
        purchaseOrders[id].doc = "live" =>
            purchaseOrders[id].totalAmount
                = Max0(Subtotal(purchaseOrders[id].items, 1)
                       - purchaseOrders[id].discount)

====
